---- MODULE Spec2Model ----
(***************************************************************************)
(* Operational-time aggregation and gap attribution of the drilling-rig    *)
(* scripts analisis_tiempos_operativos.py and                              *)
(* analisis_brecha_2025_vs_feb2026.py.                                     *)
(*                                                                         *)
(* Python floats are modelled as exact rationals <<n, d>> (d > 0, lowest   *)
(* terms); every arithmetic step of the source is kept as a step here.     *)
(***************************************************************************)
EXTENDS Integers, Sequences, FiniteSets, TLC

(***************************************************************************)
(* Exact rational arithmetic standing in for float.                        *)
(***************************************************************************)
Abs(n) == IF n < 0 THEN -n ELSE n

RECURSIVE Gcd(_, _)
Gcd(a, b) == IF b = 0 THEN a ELSE Gcd(b, a % b)

R(n, d) ==
    LET g == Gcd(Abs(n), Abs(d))
        s == IF d < 0 THEN -1 ELSE 1
    IN  <<(s * n) \div g, (s * d) \div g>>

Zero == <<0, 1>>
Hundred == <<100, 1>>

RAdd(a, b) == R(a[1] * b[2] + b[1] * a[2], a[2] * b[2])
RSub(a, b) == R(a[1] * b[2] - b[1] * a[2], a[2] * b[2])
RMul(a, b) == R(a[1] * b[1], a[2] * b[2])
RDiv(a, b) == R(a[1] * b[2], a[2] * b[1])
RLt(a, b) == a[1] * b[2] < b[1] * a[2]
RLe(a, b) == a[1] * b[2] <= b[1] * a[2]
RMax(a, b) == IF RLt(a, b) THEN b ELSE a
RInt(n) == <<n, 1>>

RECURSIVE RSumSeq(_)
RSumSeq(s) == IF s = <<>> THEN Zero ELSE RAdd(RSumSeq(SubSeq(s, 1, Len(s) - 1)), s[Len(s)])

(***************************************************************************)
(* Bounds of the attribution model.                                        *)
(***************************************************************************)
MaxCodes == 2

\* Code labels in lexicographic order, as sorted() orders them.
CodeSeq == <<"450_ScheduledService", "510_Traslado", "620_Espera", "700_Falla">>
Codes == {CodeSeq[i] : i \in 1..MaxCodes}
CodeIndex(c) == CHOOSE i \in 1..Len(CodeSeq) : CodeSeq[i] = c

\* a code enters a map only with hours > 0 (aggregate_daily_data skips dur_hours <= 0)
HpdValues == {R(1, 1), R(5, 2)}
DenominatorValues == {R(-1, 1), Zero, R(20, 1)}
GapValues == {R(-5, 1), Zero, R(15, 2)}
DayValues == {1, 28}
HpdMaps == UNION {[S -> HpdValues] : S \in SUBSET Codes}

(***************************************************************************)
(* Event rows of the CSV file.                                             *)
(*                                                                         *)
(* A date is its day number (days since 1970-01-01), a datetime is         *)
(* <<day number, second of the day>>.  A raw cell of a date/time/number    *)
(* column is a tagged tuple: <<"datetime", d, s>> for a text in one of the *)
(* accepted datetime formats, <<"date", d>> for a plain %Y-%m-%d text,     *)
(* <<"num", n>> for a decimal text, <<"pct", n>> for a decimal followed by *)
(* '%', <<"empty">> for a blank cell and <<"junk">> for any other text.    *)
(***************************************************************************)
NoDate == -1
NoDatetime == <<>>
NoFloat == <<>>

SecondsPerDay == 86400
SecondsPerHour == 3600
OperationalDayOffsetHours == 21

\* calendar date of a day number (proleptic Gregorian, as datetime.date)
CivilFromDays(days) ==
    LET z == days + 719468
        era == z \div 146097
        doe == z - era * 146097
        yoe == (doe - doe \div 1460 + doe \div 36524 - doe \div 146096) \div 365
        doy == doe - (365 * yoe + yoe \div 4 - yoe \div 100)
        mp == (5 * doy + 2) \div 153
        d == doy - (153 * mp + 2) \div 5 + 1
        m == IF mp < 10 THEN mp + 3 ELSE mp - 9
        y == yoe + era * 400 + (IF m <= 2 THEN 1 ELSE 0)
    IN  [year |-> y, month |-> m, day |-> d]

\* parse_datetime: None unless the text has one of the four datetime formats
parse_datetime(value) ==
    IF value[1] = "datetime" THEN <<value[2], value[3]>> ELSE NoDatetime

\* parse_date: %Y-%m-%d first, then the date part of parse_datetime
parse_date(value) ==
    IF value[1] = "date" THEN value[2]
    ELSE IF parse_datetime(value) # NoDatetime THEN parse_datetime(value)[1]
    ELSE NoDate

\* to_float of analisis_tiempos_operativos.py: float(raw.replace(",", "."))
to_float(value) ==
    IF value[1] = "num" THEN R(value[2], 1) ELSE NoFloat

\* to_float of analisis_brecha_2025_vs_feb2026.py also drops '%'
to_float_brecha(value) ==
    IF value[1] \in {"num", "pct"} THEN R(value[2], 1) ELSE NoFloat

\* date.isoformat(): the %Y-%m-%d text of a date
isoformat(d) == <<"date", d>>

\* the date of start_dt itself
MinusOffsetDate_no_offset(dt) ==
    (dt[1] * SecondsPerDay + dt[2]) \div SecondsPerDay

\* (start_dt - timedelta(hours=21)).date()
MinusOffsetDate(dt) ==
    (dt[1] * SecondsPerDay + dt[2] - OperationalDayOffsetHours * SecondsPerHour)
        \div SecondsPerDay

\* get_operational_day that puts an event without label and start on day 0
get_operational_day_never_none(row, start_dt) ==
    LET work_day_started == parse_date(row.WorkDayStarted)
    IN  IF work_day_started # NoDate THEN work_day_started
        ELSE IF start_dt = NoDatetime THEN 0
        ELSE MinusOffsetDate(start_dt)

\* get_operational_day of analisis_tiempos_operativos.py
get_operational_day(row, start_dt) ==
    LET work_day_started == parse_date(row.WorkDayStarted)
    IN  IF work_day_started # NoDate THEN work_day_started
        ELSE IF start_dt = NoDatetime THEN NoDate
        ELSE MinusOffsetDate(start_dt)

\* get_operational_day of analisis_brecha_2025_vs_feb2026.py
get_operational_day_brecha(row, start_dt) ==
    LET work_day_started == parse_date(row.WorkDayStarted)
    IN  IF work_day_started # NoDate THEN work_day_started
        ELSE IF start_dt = NoDatetime THEN NoDate
        ELSE MinusOffsetDate(start_dt)

\* (end_dt - start_dt).total_seconds()
TotalSeconds(end_dt, start_dt) ==
    (end_dt[1] - start_dt[1]) * SecondsPerDay + (end_dt[2] - start_dt[2])

\* str.strip() on the vocabulary of the modelled cells
Strip(value) ==
    CASE value = " Reserva " -> "Reserva"
      [] value = " efectivo " -> "efectivo"
      [] value = " programada " -> "programada"
      [] value = " Efectivo_Perforacion" -> "Efectivo_Perforacion"
      [] value = " 100 " -> "100"
      [] value = " Perforando " -> "Perforando"
      [] value = "  " -> ""
      [] OTHER -> value

\* str.lower() on the same vocabulary
Lower(value) ==
    CASE value = "Efectivo" -> "efectivo"
      [] value = "EFECTIVO" -> "efectivo"
      [] value = "Efectivos" -> "efectivos"
      [] value = "Reserva" -> "reserva"
      [] value = "RESERVA" -> "reserva"
      [] value = "Mantencion" -> "mantencion"
      [] value = "Mantención" -> "mantención"
      [] value = "MANTENCIÓN" -> "mantención"
      [] value = "Mantenimiento" -> "mantenimiento"
      [] value = "Programada" -> "programada"
      [] value = "PROGRAMADA" -> "programada"
      [] value = "Programado" -> "programado"
      [] value = "No Programada" -> "no programada"
      [] value = "Demora" -> "demora"
      [] value = "Perforando" -> "perforando"
      [] value = "Efectivo_Perforacion" -> "efectivo_perforacion"
      [] value = "EFECTIVO_Traslado" -> "efectivo_traslado"
      [] value = "Sin Operador" -> "sin operador"
      [] value = "ScheduledService" -> "scheduledservice"
      [] value = "Falla" -> "falla"
      [] value = "Traslado" -> "traslado"
      [] value = "Turno A" -> "turno a"
      [] value = "Turno B" -> "turno b"
      [] value = "A" -> "a"
      [] value = "F09" -> "f09"
      [] value = "Malla F09 Norte" -> "malla f09 norte"
      [] OTHER -> value

\* NFKD decomposition followed by the removal of the combining marks
RemoveAccents(value) ==
    CASE value = "mantención" -> "mantencion"
      [] OTHER -> value

\* (value or "").strip().lower(), then the accents are dropped
normalize_text(value) == RemoveAccents(Lower(Strip(value)))

\* only_code_name.startswith("efectivo_")
StartsWithEfectivo(normalized) ==
    normalized \in {"efectivo_perforacion", "efectivo_traslado"}

\* "f09" in drill_plan
ContainsF09(normalized) == normalized \in {"f09", "malla f09 norte"}

\* classify_bucket with the reserva test ahead of the efectivo test
classify_bucket_reserva_first(row) ==
    LET short_code == normalize_text(row.ShortCode)
        planned == normalize_text(row.PlannedCodeName)
        only_code_name == normalize_text(row.OnlyCodeName)
    IN  IF short_code = "reserva" THEN "reserva"
        ELSE IF short_code = "efectivo" \/ StartsWithEfectivo(only_code_name) THEN "efectivo"
        ELSE IF short_code = "mantencion"
             THEN (IF planned = "programada" THEN "mant_programada" ELSE "mant_no_programada")
        ELSE "otras"

\* classify_bucket of analisis_tiempos_operativos.py
classify_bucket(row) ==
    LET short_code == normalize_text(row.ShortCode)
        planned == normalize_text(row.PlannedCodeName)
        only_code_name == normalize_text(row.OnlyCodeName)
    IN  IF short_code = "efectivo" \/ StartsWithEfectivo(only_code_name) THEN "efectivo"
        ELSE IF short_code = "reserva" THEN "reserva"
        ELSE IF short_code = "mantencion"
             THEN (IF planned = "programada" THEN "mant_programada" ELSE "mant_no_programada")
        ELSE "otras"

\* classify_bucket of analisis_brecha_2025_vs_feb2026.py
classify_bucket_brecha(row) ==
    LET short_code == normalize_text(row.ShortCode)
        planned == normalize_text(row.PlannedCodeName)
        only_code_name == normalize_text(row.OnlyCodeName)
    IN  IF short_code = "efectivo" \/ StartsWithEfectivo(only_code_name) THEN "efectivo"
        ELSE IF short_code = "reserva" THEN "reserva"
        ELSE IF short_code = "mantencion"
             THEN (IF planned = "programada" THEN "mant_programada" ELSE "mant_no_programada")
        ELSE "otras"

\* f"{code_number}_{code_name}"
JoinCode(code_number, code_name) == code_number \o "_" \o code_name

build_code_label(row) ==
    LET code_number == Strip(row.OnlyCodeNumber)
        code_name == Strip(row.OnlyCodeName)
        code_name_alt == Strip(row.CodeName)
        delay_data == Strip(row.DelayData)
    IN  IF code_number # "" /\ code_name # "" THEN JoinCode(code_number, code_name)
        ELSE IF code_name # "" THEN code_name
        ELSE IF code_name_alt # "" THEN code_name_alt
        ELSE IF delay_data # "" THEN delay_data
        ELSE "SIN_CODIGO"

normalize_shift_name(value) ==
    LET shift == Strip(value)
    IN  IF shift = "" THEN "SIN_TURNO"
        ELSE IF normalize_text(shift) \in {"turno a", "a"} THEN "Turno A"
        ELSE IF normalize_text(shift) \in {"turno b", "b"} THEN "Turno B"
        ELSE shift

(***************************************************************************)
(* The rows a file is made of.                                             *)
(***************************************************************************)
MaxRows == 3

\* day number of a calendar date (inverse of CivilFromDays)
DaysFromCivil(year, month, day) ==
    LET y == IF month <= 2 THEN year - 1 ELSE year
        era == y \div 400
        yoe == y - era * 400
        doy == (153 * (IF month > 2 THEN month - 3 ELSE month + 9) + 2) \div 5 + day - 1
        doe == yoe * 365 + yoe \div 4 - yoe \div 100 + doy
    IN  era * 146097 + doe - 719468

D_2025_12_31 == DaysFromCivil(2025, 12, 31)
D_2026_01_31 == DaysFromCivil(2026, 1, 31)
D_2026_02_01 == DaysFromCivil(2026, 2, 1)
D_2026_02_02 == DaysFromCivil(2026, 2, 2)

RigNames == {"PF01", "PF02"}
\* names in the order str compares them
RigSeq == <<"FLOTA", "PF01", "PF02", "SIN_RIG">>
ShiftSeq == <<"SIN_TURNO", "Turno A", "Turno B">>

\* when the event happened: start, end, seconds, explicit operational day, shift
WhenChoices ==
    { [Time |-> <<"datetime", D_2026_01_31, 22 * 3600>>,
       EndTime |-> <<"datetime", D_2026_01_31, 23 * 3600>>,
       Duration |-> <<"num", 3600>>,
       WorkDayStarted |-> <<"date", D_2026_01_31>>, ShiftName |-> "Turno A"],
      \* no explicit day: 2026-02-02 03:00 belongs to operational day 2026-02-01
      [Time |-> <<"datetime", D_2026_02_02, 3 * 3600>>,
       EndTime |-> <<"datetime", D_2026_02_02, 4 * 3600>>,
       Duration |-> <<"num", 3600>>,
       WorkDayStarted |-> <<"empty">>, ShiftName |-> "A"],
      [Time |-> <<"datetime", D_2026_02_02, 10 * 3600>>,
       EndTime |-> <<"datetime", D_2026_02_02, 12 * 3600>>,
       Duration |-> <<"num", 7200>>,
       WorkDayStarted |-> <<"date", D_2026_02_02>>, ShiftName |-> "b"] }

\* what the event was: status, planned flag, code fields, drill plan
CodeChoices ==
    { [ShortCode |-> "Efectivo", PlannedCodeName |-> "", OnlyCodeNumber |-> "100",
       OnlyCodeName |-> "Perforando", CodeName |-> "", DelayData |-> "", DrillPlan |-> ""],
      [ShortCode |-> " Reserva ", PlannedCodeName |-> "", OnlyCodeNumber |-> "200",
       OnlyCodeName |-> "Sin Operador", CodeName |-> "", DelayData |-> "", DrillPlan |-> "F09"],
      [ShortCode |-> "Mantencion", PlannedCodeName |-> "Programada", OnlyCodeNumber |-> "450",
       OnlyCodeName |-> "ScheduledService", CodeName |-> "", DelayData |-> "", DrillPlan |-> ""],
      [ShortCode |-> "Mantención", PlannedCodeName |-> "No Programada", OnlyCodeNumber |-> "700",
       OnlyCodeName |-> "Falla", CodeName |-> "", DelayData |-> "", DrillPlan |-> ""],
      [ShortCode |-> "Demora", PlannedCodeName |-> "", OnlyCodeNumber |-> "510",
       OnlyCodeName |-> "Traslado", CodeName |-> "", DelayData |-> "", DrillPlan |-> ""] }

MakeRow(rig, when, code) == [RigName |-> rig] @@ when @@ code

Efectivo == CHOOSE c \in CodeChoices : c.OnlyCodeNumber = "100"
Reserva == CHOOSE c \in CodeChoices : c.OnlyCodeNumber = "200"
MantProgramada == CHOOSE c \in CodeChoices : c.OnlyCodeNumber = "450"
MantNoProgramada == CHOOSE c \in CodeChoices : c.OnlyCodeNumber = "700"
Demora == CHOOSE c \in CodeChoices : c.OnlyCodeNumber = "510"

January == CHOOSE w \in WhenChoices : w.WorkDayStarted = <<"date", D_2026_01_31>>
FebruaryFirst == CHOOSE w \in WhenChoices : w.WorkDayStarted = <<"empty">>
FebruarySecond == CHOOSE w \in WhenChoices : w.WorkDayStarted = <<"date", D_2026_02_02>>

\* neither the day label nor the start parses: the event has no operational day
Unresolvable ==
    [Time |-> <<"junk">>, EndTime |-> <<"datetime", D_2026_02_02, 4 * 3600>>,
     Duration |-> <<"num", 3600>>, WorkDayStarted |-> <<"empty">>, ShiftName |-> ""]

\* a negative Duration
NegativeDuration ==
    [Time |-> <<"datetime", D_2026_02_02, 10 * 3600>>,
     EndTime |-> <<"datetime", D_2026_02_02, 11 * 3600>>,
     Duration |-> <<"num", -3600>>,
     WorkDayStarted |-> <<"date", D_2026_02_02>>, ShiftName |-> "Turno B"]

\* no Duration: one hour from EndTime - Time
DurationFromTimes ==
    [Time |-> <<"datetime", D_2026_02_02, 10 * 3600>>,
     EndTime |-> <<"datetime", D_2026_02_02, 11 * 3600>>,
     Duration |-> <<"empty">>,
     WorkDayStarted |-> <<"date", D_2026_02_02>>, ShiftName |-> "Turno B"]

\* an unparseable Duration and an EndTime before Time
EndBeforeStart ==
    [Time |-> <<"datetime", D_2026_02_02, 12 * 3600>>,
     EndTime |-> <<"datetime", D_2026_02_02, 11 * 3600>>,
     Duration |-> <<"junk">>,
     WorkDayStarted |-> <<"date", D_2026_02_02>>, ShiftName |-> "Turno B"]

\* neither Duration nor EndTime, on a day of its own
NoDurationNoEnd ==
    [Time |-> <<"datetime", D_2026_01_31, 8 * 3600>>, EndTime |-> <<"empty">>,
     Duration |-> <<"empty">>,
     WorkDayStarted |-> <<"date", D_2026_01_31 - 1>>, ShiftName |-> "Turno A"]

\* half an hour in the other shift of operational day 2026-02-02
OtherShift ==
    [Time |-> <<"datetime", D_2026_02_02, 20 * 3600>>,
     EndTime |-> <<"datetime", D_2026_02_02, 20 * 3600 + 1800>>,
     Duration |-> <<"num", 1800>>,
     WorkDayStarted |-> <<"date", D_2026_02_02>>, ShiftName |-> "Turno A"]

\* the well-formed events of one rig, a second rig and a row without rig name,
\* and the events whose day or duration does not resolve
Rows ==
    { MakeRow("PF01", when, code) : when \in WhenChoices, code \in CodeChoices }
    \cup { MakeRow("PF02", FebruarySecond, Efectivo),
           MakeRow("PF02", FebruarySecond, MantNoProgramada),
           MakeRow("", FebruaryFirst, Demora),
           MakeRow("PF01", OtherShift, MantNoProgramada),
           MakeRow("PF01", Unresolvable, Demora),
           MakeRow("PF02", Unresolvable, MantProgramada),
           MakeRow("PF01", NegativeDuration, Efectivo),
           MakeRow("PF01", DurationFromTimes, Demora),
           MakeRow("PF01", EndBeforeStart, Reserva),
           MakeRow("PF02", NoDurationNoEnd, MantNoProgramada) }

VARIABLES
    \* attribute_gap_to_codes on drawn inputs
    baseline_hpd_by_code,   \* dict code -> average hours per day, baseline period
    compare_hpd_by_code,    \* dict code -> average hours per day, compared period
    denominator_hpd,
    gap_pp,
    compared_days,
    delta_rows,             \* list returned by build_code_delta_rows (its dicts are mutated later)
    attr_rows,              \* list returned by attribute_gap_to_codes
    apc,                    \* position of the attribution pipeline
    \* load_daily_metrics (analisis_tiempos_operativos.py)
    daily,                  \* dict (operational day, rig) -> daily record
    shift_daily,            \* dict (operational day, rig, shift) -> day-shift record
    availability_impact_hours_by_code,
    uebd_impact_hours_by_code,
    availability_impact_hours_by_code_rig,
    uebd_impact_hours_by_code_rig,
    impact_totals,
    stats,
    last_row,               \* the row the loop read last
    events_read,            \* the rows read so far, as a multiset: row -> how many times
    daily_rows,             \* first list returned by load_daily_metrics
    shift_daily_rows,       \* second list returned by load_daily_metrics
    monthly_by_rig, yearly_by_rig, monthly_fleet, yearly_fleet,
    \* aggregate_daily_data (analisis_brecha_2025_vs_feb2026.py) reading the same file
    agg,                    \* its dicts while the file is read
    agg_result,             \* what it returns
    monthly_real_rows,      \* aggregate_monthly_from_daily_rows on its daily rows
    \* main of calculate_operational_metrics.py reading the same file
    accumulators,           \* dict group key -> the three hour totals
    output_rows,            \* the rows it writes
    \* the reports main of analisis_tiempos_operativos.py builds from daily_rows
    resumen_ejecutivo_rows, \* aggregate_all_period_by_rig
    top_dias_criticos,      \* the argument --top-dias-criticos, at least 1
    top_dias_disp,          \* build_top_critical_days on disponibilidad_ratio
    top_dias_uebd,          \* build_top_critical_days on uebd_ratio
    availability_impact_rows, \* build_impact_rows for disponibilidad
    uebd_impact_rows,       \* build_impact_rows for uebd
    pc,                     \* "reading", "loaded", "aggregated", "reported"
    \* main of analisis_brecha_2025_vs_feb2026.py
    args,                   \* the command line
    input_2025, input_2026, \* the rows of the two event files
    base, comp,             \* aggregate_daily_data of the baseline and of the compared month
    uebd_obj, disp_obj, source_uebd, source_disp,
    uebd_gap_pp, disp_gap_pp,
    uebd_attr_rows, disp_attr_rows, f09_rows,
    perdida_horas_uebd, perdida_horas_disponibilidad,
    mpc,                    \* position of main
    \* one call of a pure function of the scripts
    call,                   \* the function called and its arguments
    result,                 \* what it returned
    cpc                     \* "called" before the call, "returned" after it

attrVars == <<baseline_hpd_by_code, compare_hpd_by_code, denominator_hpd, gap_pp,
              compared_days, delta_rows, attr_rows, apc>>

loadVars == <<daily, shift_daily, availability_impact_hours_by_code,
              uebd_impact_hours_by_code, availability_impact_hours_by_code_rig,
              uebd_impact_hours_by_code_rig, impact_totals, stats, last_row,
              events_read>>

outVars == <<daily_rows, shift_daily_rows, agg_result>>

periodVars == <<monthly_by_rig, yearly_by_rig, monthly_fleet, yearly_fleet,
                monthly_real_rows>>

calcVars == <<accumulators, output_rows>>

reportVars == <<resumen_ejecutivo_rows, top_dias_criticos, top_dias_disp, top_dias_uebd,
                availability_impact_rows, uebd_impact_rows>>

foldVars == <<loadVars, outVars, periodVars, agg, calcVars, reportVars, pc>>

targetVars == <<uebd_obj, disp_obj, source_uebd, source_disp>>

gapVars == <<uebd_gap_pp, disp_gap_pp, uebd_attr_rows, disp_attr_rows, f09_rows,
             perdida_horas_uebd, perdida_horas_disponibilidad>>

mainVars == <<args, input_2025, input_2026, base, comp, targetVars, gapVars, mpc>>

fnVars == <<call, result, cpc>>

vars == <<attrVars, foldVars, mainVars, fnVars>>

(***************************************************************************)
(* build_code_delta_rows                                                   *)
(***************************************************************************)
DictGet(d, k, default) == IF k \in DOMAIN d THEN d[k] ELSE default

\* sorted(set(...)) over code labels
RECURSIVE SortedCodes(_, _)
SortedCodes(S, i) ==
    IF i > Len(CodeSeq) THEN <<>>
    ELSE (IF CodeSeq[i] \in S THEN <<CodeSeq[i]>> ELSE <<>>) \o SortedCodes(S, i + 1)

\* Stable sort, descending by key: list.sort(key=..., reverse=True) keeps the
\* original relative order of rows with equal keys.  Returns the permutation.
RECURSIVE InsertDesc(_, _, _)
InsertDesc(perm, i, keys) ==
    IF perm = <<>> THEN <<i>>
    ELSE IF RLt(keys[perm[Len(perm)]], keys[i])
         THEN InsertDesc(SubSeq(perm, 1, Len(perm) - 1), i, keys) \o <<perm[Len(perm)]>>
         ELSE perm \o <<i>>

RECURSIVE SortPermDesc(_, _)
SortPermDesc(keys, n) ==
    IF n = 0 THEN <<>> ELSE InsertDesc(SortPermDesc(keys, n - 1), n, keys)

DeltaRow_abs(code, base_map, comp_map) ==
    LET b == DictGet(base_map, code, Zero)
        c == DictGet(comp_map, code, Zero)
    IN  [codigo |-> code,
         baseline_horas_dia |-> b,
         comparado_horas_dia |-> c,
         delta_horas_dia |-> RSub(c, b),
         delta_horas_dia_positivo |-> RMax(RSub(c, b), RSub(b, c))]

DeltaRow_signed(code, base_map, comp_map) ==
    LET b == DictGet(base_map, code, Zero)
        c == DictGet(comp_map, code, Zero)
    IN  [codigo |-> code,
         baseline_horas_dia |-> b,
         comparado_horas_dia |-> c,
         delta_horas_dia |-> RSub(c, b),
         delta_horas_dia_positivo |-> RSub(c, b)]

DeltaRow(code, base_map, comp_map) ==
    LET b == DictGet(base_map, code, Zero)
        c == DictGet(comp_map, code, Zero)
    IN  [codigo |-> code,
         baseline_horas_dia |-> b,
         comparado_horas_dia |-> c,
         delta_horas_dia |-> RSub(c, b),
         delta_horas_dia_positivo |-> RMax(RSub(c, b), Zero)]

RECURSIVE DeltaLoop(_, _, _, _)
DeltaLoop(all_codes, k, base_map, comp_map) ==
    IF k = 0 THEN <<>>
    ELSE Append(DeltaLoop(all_codes, k - 1, base_map, comp_map), DeltaRow(all_codes[k], base_map, comp_map))

RECURSIVE TakeField(_, _, _)
TakeField(rows, k, field) ==
    IF k = 0 THEN <<>> ELSE Append(TakeField(rows, k - 1, field), rows[k][field])

RECURSIVE Reordered(_, _, _)
Reordered(rows, perm, k) ==
    IF k = 0 THEN <<>> ELSE Append(Reordered(rows, perm, k - 1), rows[perm[k]])

build_code_delta_rows(base_map, comp_map) ==
    LET all_codes == SortedCodes((DOMAIN base_map) \cup (DOMAIN comp_map), 1)
        n == Len(all_codes)
        rows == DeltaLoop(all_codes, n, base_map, comp_map)
        perm == SortPermDesc(TakeField(rows, n, "delta_horas_dia"), n)
    IN  Reordered(rows, perm, n)

(***************************************************************************)
(* attribute_gap_to_codes                                                  *)
(***************************************************************************)
SetField(row, name, value) == (name :> value) @@ row

\* the branch taken when denominator_hpd <= 0 (lines 777-783)
DegenerateRow(row) ==
    SetField(SetField(SetField(SetField(row,
        "impacto_raw_pp", Zero),
        "factor_escalamiento", Zero),
        "impacto_atribuido_pp", Zero),
        "perdida_horas_mes_atribuida", Zero)

RawImpactPp(row, denominator) ==
    RMul(RDiv(row.delta_horas_dia_positivo, denominator), Hundred)

ScalingFactor_unscaled(gap, raw_sum_pp) ==
    IF RLt(Zero, raw_sum_pp) /\ RLt(Zero, gap) THEN R(1, 1) ELSE Zero

ScalingFactor_rawfallback(gap, raw_sum_pp) ==
    IF RLt(Zero, raw_sum_pp) /\ RLt(Zero, gap) THEN RDiv(gap, raw_sum_pp) ELSE R(1, 1)

ScalingFactor(gap, raw_sum_pp) ==
    IF RLt(Zero, raw_sum_pp) /\ RLt(Zero, gap) THEN RDiv(gap, raw_sum_pp) ELSE Zero

\* lines 793-798 with the hours taken from the raw instead of the attributed points
AttributedRow_hours_from_raw(row, denominator, factor, days) ==
    LET raw_pp == RawImpactPp(row, denominator)
        impacto_pp == RMul(raw_pp, factor)
        perdida_hpd == RMul(RDiv(raw_pp, Hundred), denominator)
    IN  SetField(SetField(SetField(SetField(SetField(row,
            "impacto_raw_pp", raw_pp),
            "factor_escalamiento", factor),
            "impacto_atribuido_pp", impacto_pp),
            "perdida_horas_dia_atribuida", perdida_hpd),
            "perdida_horas_mes_atribuida", RMul(perdida_hpd, RInt(days)))

AttributedRow(row, denominator, factor, days) ==
    LET raw_pp == RawImpactPp(row, denominator)
        impacto_pp == RMul(raw_pp, factor)
        perdida_hpd == RMul(RDiv(impacto_pp, Hundred), denominator)
    IN  SetField(SetField(SetField(SetField(SetField(row,
            "impacto_raw_pp", raw_pp),
            "factor_escalamiento", factor),
            "impacto_atribuido_pp", impacto_pp),
            "perdida_horas_dia_atribuida", perdida_hpd),
            "perdida_horas_mes_atribuida", RMul(perdida_hpd, RInt(days)))

\* first loop (lines 785-789): the rows with impacto_raw_pp written
RECURSIVE RawLoop(_, _, _)
RawLoop(rows, k, denominator) ==
    IF k = 0 THEN <<>>
    ELSE Append(RawLoop(rows, k - 1, denominator),
                SetField(rows[k], "impacto_raw_pp", RawImpactPp(rows[k], denominator)))

\* second loop (lines 792-798)
RECURSIVE ScaleLoop(_, _, _, _, _)
ScaleLoop(rows, k, denominator, factor, days) ==
    IF k = 0 THEN <<>>
    ELSE Append(ScaleLoop(rows, k - 1, denominator, factor, days),
                AttributedRow(rows[k], denominator, factor, days))

\* ranking loop (lines 802-808) over the ordered rows; acum is the running sum
RECURSIVE RankLoop(_, _, _)
RankLoop(ordered, k, total_impact) ==
    IF k = 0 THEN [rows |-> <<>>, acum |-> Zero]
    ELSE LET prev == RankLoop(ordered, k - 1, total_impact)
             imp == RMax(ordered[k].impacto_atribuido_pp, Zero)
             acum == RAdd(prev.acum, imp)
         IN  [rows |-> Append(prev.rows,
                    SetField(SetField(SetField(ordered[k],
                        "ranking_impacto", k),
                        "participacion_gap_pct",
                            IF RLt(Zero, total_impact)
                            THEN RMul(RDiv(imp, total_impact), Hundred) ELSE Zero),
                        "impacto_acumulado_pp", acum)),
              acum |-> acum]

RECURSIVE DegenerateLoop(_, _)
DegenerateLoop(rows, k) ==
    IF k = 0 THEN <<>> ELSE Append(DegenerateLoop(rows, k - 1), DegenerateRow(rows[k]))

RECURSIVE InversePerm(_, _)
InversePerm(perm, k) ==
    IF k = 0 THEN <<>>
    ELSE Append(InversePerm(perm, k - 1), CHOOSE j \in 1..Len(perm) : perm[j] = k)

\* The result is [mutated |-> the rows of delta_rows in their original order
\* (the function writes into the caller's dicts), ordered |-> the returned list].
attribute_gap_to_codes(rows, denominator, gap, days) ==
    IF RLe(denominator, Zero)
    THEN LET out == DegenerateLoop(rows, Len(rows))
         IN  [mutated |-> out, ordered |-> out]
    ELSE LET n == Len(rows)
             raw_rows == RawLoop(rows, n, denominator)
             raw_sum_pp == RSumSeq(TakeField(raw_rows, n, "impacto_raw_pp"))
             factor == ScalingFactor(gap, raw_sum_pp)
             scaled == ScaleLoop(rows, n, denominator, factor, days)
             perm == SortPermDesc(TakeField(scaled, n, "impacto_atribuido_pp"), n)
             sorted == Reordered(scaled, perm, n)
             total_impact ==
                 RSumSeq([k \in 1..n |-> RMax(sorted[k].impacto_atribuido_pp, Zero)])
             ordered == RankLoop(sorted, n, total_impact).rows
         IN  [mutated |-> Reordered(ordered, InversePerm(perm, n), n), ordered |-> ordered]

sum_field(rows, field) ==
    RSumSeq([i \in 1..Len(rows) |-> DictGet(rows[i], field, Zero)])

(***************************************************************************)
(* analisis_tiempos_operativos.py: daily records and their fold.           *)
(***************************************************************************)
METRIC_KEYS ==
    <<"horas_totales", "horas_efectivo", "horas_reserva", "horas_mant_programada",
      "horas_mant_no_programada", "horas_otras">>

Bump(rec, field, hours) == [rec EXCEPT ![field] = RAdd(@, hours)]

build_daily_row(fecha_operativa, perforadora) ==
    [fecha_operativa |-> isoformat(fecha_operativa),
     anio |-> CivilFromDays(fecha_operativa).year,
     mes |-> CivilFromDays(fecha_operativa).month,
     perforadora |-> perforadora,
     horas_totales |-> Zero, horas_efectivo |-> Zero, horas_reserva |-> Zero,
     horas_mant_programada |-> Zero, horas_mant_no_programada |-> Zero, horas_otras |-> Zero,
     horas_operativas |-> Zero, horas_disponibles |-> Zero,
     disponibilidad_ratio |-> Zero, disponibilidad_pct |-> Zero,
     disponibilidad_formula_usuario |-> Zero,
     uebd_ratio |-> Zero, uebd_pct |-> Zero, uebd_formula_usuario |-> Zero]

build_shift_daily_row(fecha_operativa, perforadora, turno) ==
    ("turno" :> turno) @@ build_daily_row(fecha_operativa, perforadora)

BucketField(bucket) ==
    CASE bucket = "efectivo" -> "horas_efectivo"
      [] bucket = "reserva" -> "horas_reserva"
      [] bucket = "mant_programada" -> "horas_mant_programada"
      [] bucket = "mant_no_programada" -> "horas_mant_no_programada"
      [] OTHER -> "horas_otras"

classify_and_add_hours_no_total(bucket, metrics, hours) ==
    Bump(metrics, BucketField(bucket), hours)

classify_and_add_hours(bucket, metrics, hours) ==
    Bump(Bump(metrics, "horas_totales", hours), BucketField(bucket), hours)

OperationalHours(row) ==
    RMax(RSub(RSub(row.horas_totales, row.horas_mant_programada),
              row.horas_mant_no_programada), Zero)

Ratio_full_when_empty(numerator, denominator) ==
    IF RLt(Zero, denominator) THEN RDiv(numerator, denominator) ELSE R(1, 1)

Ratio_inverted(numerator, denominator) ==
    IF RLt(Zero, denominator) /\ RLt(Zero, numerator) THEN RDiv(denominator, numerator) ELSE Zero

\* x / y if y > 0 else 0.0
Ratio(numerator, denominator) ==
    IF RLt(Zero, denominator) THEN RDiv(numerator, denominator) ELSE Zero

\* the derived fields shared by finalize_metrics and the last loop of aggregate_period
WithDerived(row) ==
    LET op == OperationalHours(row)
        disp == Ratio(op, row.horas_totales)
        uebd == Ratio(row.horas_efectivo, op)
    IN  [row EXCEPT !.horas_operativas = op,
                    !.horas_disponibles = op,
                    !.disponibilidad_ratio = disp,
                    !.disponibilidad_pct = RMul(disp, Hundred),
                    !.disponibilidad_formula_usuario = RDiv(disp, Hundred),
                    !.uebd_ratio = uebd,
                    !.uebd_pct = RMul(uebd, Hundred),
                    !.uebd_formula_usuario = RDiv(uebd, Hundred)]

finalize_metrics_net_total(row) ==
    [WithDerived(row) EXCEPT !.horas_totales = OperationalHours(row)]

finalize_metrics(row) == WithDerived(row)

\* Duration in seconds, else EndTime - Time, else 0; never negative; in hours
DurationHours(row, start_dt, end_dt) ==
    LET parsed == to_float(row.Duration)
        fallback == parsed = NoFloat /\ start_dt # NoDatetime /\ end_dt # NoDatetime
        duration_seconds ==
            IF parsed # NoFloat THEN parsed
            ELSE IF fallback THEN RInt(TotalSeconds(end_dt, start_dt))
            ELSE Zero
    IN  [hours |-> RDiv(RMax(duration_seconds, Zero), RInt(SecondsPerHour)),
         fallback |-> fallback]

RigNameOf(row) == IF Strip(row.RigName) = "" THEN "SIN_RIG" ELSE Strip(row.RigName)

AddTo_last_wins(dict, key, hours) == (key :> hours) @@ dict

AddTo(dict, key, hours) ==
    (key :> RAdd(DictGet(dict, key, Zero), hours)) @@ dict

RigIndex(rig) == CHOOSE i \in 1..Len(RigSeq) : RigSeq[i] = rig
ShiftIndex(shift) == CHOOSE i \in 1..Len(ShiftSeq) : ShiftSeq[i] = shift

\* order of the keys (fecha_operativa, perforadora[, turno]) used by sorted()
KeyLess(a, b) ==
    \/ a[1] < b[1]
    \/ a[1] = b[1] /\ RigIndex(a[2]) < RigIndex(b[2])
    \/ /\ a[1] = b[1] /\ a[2] = b[2] /\ Len(a) = 3
       /\ ShiftIndex(a[3]) < ShiftIndex(b[3])

RECURSIVE SortedKeys(_)
SortedKeys(keys) ==
    IF keys = {} THEN <<>>
    ELSE LET first == CHOOSE k \in keys : \A other \in keys \ {k} : KeyLess(k, other)
         IN  <<first>> \o SortedKeys(keys \ {first})

RECURSIVE FinalizedRows(_, _, _)
FinalizedRows(dict, keys, k) ==
    IF k = 0 THEN <<>>
    ELSE Append(FinalizedRows(dict, keys, k - 1), finalize_metrics(dict[keys[k]]))

\* sorted(dict.values(), key=...) followed by finalize_metrics on every row
SortedFinalized(dict) ==
    LET keys == SortedKeys(DOMAIN dict)
    IN  FinalizedRows(dict, keys, Len(keys))

(***************************************************************************)
(* aggregate_period                                                        *)
(***************************************************************************)
PeriodKey(row, granularity, by_rig) ==
    (IF granularity = "mensual" THEN <<row.anio, row.mes>> ELSE <<row.anio>>)
        \o <<IF by_rig THEN row.perforadora ELSE "FLOTA">>

NewPeriodRecord(row, granularity, by_rig) ==
    [anio |-> row.anio,
     mes |-> IF granularity = "mensual" THEN row.mes ELSE 0,   \* 0 stands for ""
     perforadora |-> IF by_rig THEN row.perforadora ELSE "FLOTA",
     dias_con_datos |-> 0,
     horas_totales |-> Zero, horas_efectivo |-> Zero, horas_reserva |-> Zero,
     horas_mant_programada |-> Zero, horas_mant_no_programada |-> Zero, horas_otras |-> Zero,
     horas_operativas |-> Zero, horas_disponibles |-> Zero,
     promedio_diario_efectivo_h |-> Zero, promedio_diario_reserva_h |-> Zero,
     promedio_diario_mant_programada_h |-> Zero,
     promedio_diario_mant_no_programada_h |-> Zero,
     disponibilidad_ratio |-> Zero, disponibilidad_pct |-> Zero,
     disponibilidad_formula_usuario |-> Zero,
     uebd_ratio |-> Zero, uebd_pct |-> Zero, uebd_formula_usuario |-> Zero]

\* for metric in METRIC_KEYS: rec[metric] += row[metric]
AddMetrics_overwrite(rec, row) ==
    [rec EXCEPT !.horas_totales = row.horas_totales,
                !.horas_efectivo = row.horas_efectivo,
                !.horas_reserva = row.horas_reserva,
                !.horas_mant_programada = row.horas_mant_programada,
                !.horas_mant_no_programada = row.horas_mant_no_programada,
                !.horas_otras = row.horas_otras]

AddMetrics(rec, row) ==
    [rec EXCEPT !.horas_totales = RAdd(@, row.horas_totales),
                !.horas_efectivo = RAdd(@, row.horas_efectivo),
                !.horas_reserva = RAdd(@, row.horas_reserva),
                !.horas_mant_programada = RAdd(@, row.horas_mant_programada),
                !.horas_mant_no_programada = RAdd(@, row.horas_mant_no_programada),
                !.horas_otras = RAdd(@, row.horas_otras)]

\* line 547: rec["dias_con_datos"] += 1
CountDay_once(rec) == [rec EXCEPT !.dias_con_datos = 1]
CountDay(rec) == [rec EXCEPT !.dias_con_datos = @ + 1]

\* first loop of aggregate_period (lines 512-549): the grouped dict
RECURSIVE GroupLoop(_, _, _, _)
GroupLoop(rows, k, granularity, by_rig) ==
    IF k = 0 THEN << >>
    ELSE LET grouped == GroupLoop(rows, k - 1, granularity, by_rig)
             row == rows[k]
             key == PeriodKey(row, granularity, by_rig)
             rec == IF key \in DOMAIN grouped THEN grouped[key]
                    ELSE NewPeriodRecord(row, granularity, by_rig)
             counted == CountDay(rec)
         IN  (key :> AddMetrics(counted, row)) @@ grouped

\* last loop of aggregate_period (lines 560-585)
PeriodDerived_unscheduled_ignored(rec) ==
    LET days == IF rec.dias_con_datos > 1 THEN rec.dias_con_datos ELSE 1
        op == RMax(RSub(rec.horas_totales, rec.horas_mant_programada), Zero)
        disp == Ratio(op, rec.horas_totales)
        uebd == Ratio(rec.horas_efectivo, op)
    IN  [rec EXCEPT
            !.horas_operativas = op,
            !.horas_disponibles = op,
            !.disponibilidad_ratio = disp,
            !.disponibilidad_pct = RMul(disp, Hundred),
            !.disponibilidad_formula_usuario = RDiv(disp, Hundred),
            !.uebd_ratio = uebd,
            !.uebd_pct = RMul(uebd, Hundred),
            !.uebd_formula_usuario = RDiv(uebd, Hundred),
            !.promedio_diario_efectivo_h = RDiv(rec.horas_efectivo, RInt(days)),
            !.promedio_diario_reserva_h = RDiv(rec.horas_reserva, RInt(days)),
            !.promedio_diario_mant_programada_h = RDiv(rec.horas_mant_programada, RInt(days)),
            !.promedio_diario_mant_no_programada_h =
                RDiv(rec.horas_mant_no_programada, RInt(days))]

PeriodDerived(rec) ==
    LET days == IF rec.dias_con_datos > 1 THEN rec.dias_con_datos ELSE 1
        d == WithDerived(rec)
    IN  [d EXCEPT
            !.promedio_diario_efectivo_h = RDiv(rec.horas_efectivo, RInt(days)),
            !.promedio_diario_reserva_h = RDiv(rec.horas_reserva, RInt(days)),
            !.promedio_diario_mant_programada_h = RDiv(rec.horas_mant_programada, RInt(days)),
            !.promedio_diario_mant_no_programada_h =
                RDiv(rec.horas_mant_no_programada, RInt(days))]

PeriodKeyLess(a, b) ==
    \/ a.anio < b.anio
    \/ a.anio = b.anio /\ a.mes < b.mes
    \/ a.anio = b.anio /\ a.mes = b.mes /\ RigIndex(a.perforadora) < RigIndex(b.perforadora)

RECURSIVE SortedPeriodKeys(_, _)
SortedPeriodKeys(grouped, keys) ==
    IF keys = {} THEN <<>>
    ELSE LET first == CHOOSE k \in keys :
                         \A other \in keys \ {k} : PeriodKeyLess(grouped[k], grouped[other])
         IN  <<first>> \o SortedPeriodKeys(grouped, keys \ {first})

RECURSIVE PeriodRows(_, _, _)
PeriodRows(grouped, keys, k) ==
    IF k = 0 THEN <<>>
    ELSE Append(PeriodRows(grouped, keys, k - 1), PeriodDerived(grouped[keys[k]]))

aggregate_period(rows, granularity, by_rig) ==
    LET grouped == GroupLoop(rows, Len(rows), granularity, by_rig)
        keys == SortedPeriodKeys(grouped, DOMAIN grouped)
    IN  PeriodRows(grouped, keys, Len(keys))


(***************************************************************************)
(* aggregate_all_period_by_rig                                             *)
(***************************************************************************)
NewSummaryRecord(rig) ==
    [perforadora |-> rig, dias_con_datos |-> 0,
     horas_efectivas |-> Zero, horas_operativas |-> Zero, horas_totales |-> Zero,
     uebd_formula_usuario |-> Zero, disponibilidad_formula_usuario |-> Zero,
     uebd_ratio |-> Zero, uebd_pct |-> Zero,
     disponibilidad_ratio |-> Zero, disponibilidad_pct |-> Zero,
     horas_reserva |-> Zero, horas_mant_programada |-> Zero,
     horas_mant_no_programada |-> Zero, horas_otras |-> Zero]

\* lines 660-668 and 700-708: the totals of `row` added to `rec`
AddSummary(rec, days, efectivas, row) ==
    [rec EXCEPT !.dias_con_datos = @ + days,
                !.horas_efectivas = RAdd(@, efectivas),
                !.horas_operativas = RAdd(@, row.horas_operativas),
                !.horas_totales = RAdd(@, row.horas_totales),
                !.horas_reserva = RAdd(@, row.horas_reserva),
                !.horas_mant_programada = RAdd(@, row.horas_mant_programada),
                !.horas_mant_no_programada = RAdd(@, row.horas_mant_no_programada),
                !.horas_otras = RAdd(@, row.horas_otras)]

\* lines 639-668: grouped[rig]
RECURSIVE SummaryLoop(_, _)
SummaryLoop(rows, k) ==
    IF k = 0 THEN << >>
    ELSE LET grouped == SummaryLoop(rows, k - 1)
             row == rows[k]
             rig == row.perforadora
             rec == DictGet(grouped, rig, NewSummaryRecord(rig))
         IN  (rig :> AddSummary(rec, 1, row.horas_efectivo, row)) @@ grouped

\* lines 672-680 and 710-717: the ratios of a summary record
SummaryRatios(rec) ==
    LET disp == Ratio(rec.horas_operativas, rec.horas_totales)
        uebd == Ratio(rec.horas_efectivas, rec.horas_operativas)
    IN  [rec EXCEPT !.disponibilidad_ratio = disp,
                    !.disponibilidad_pct = RMul(disp, Hundred),
                    !.disponibilidad_formula_usuario = RDiv(disp, Hundred),
                    !.uebd_ratio = uebd,
                    !.uebd_pct = RMul(uebd, Hundred),
                    !.uebd_formula_usuario = RDiv(uebd, Hundred)]

\* sorted(grouped.values(), key=perforadora) with the ratios of each record
RECURSIVE SummaryRows(_, _)
SummaryRows(grouped, i) ==
    IF i > Len(RigSeq) THEN <<>>
    ELSE (IF RigSeq[i] \in DOMAIN grouped THEN <<SummaryRatios(grouped[RigSeq[i]])>>
          ELSE <<>>) \o SummaryRows(grouped, i + 1)

\* lines 682-717: the TOTAL row
RECURSIVE SummaryTotals(_, _)
SummaryTotals(rows, k) ==
    IF k = 0 THEN NewSummaryRecord("TOTAL")
    ELSE AddSummary(SummaryTotals(rows, k - 1), rows[k].dias_con_datos,
                    rows[k].horas_efectivas, rows[k])

aggregate_all_period_by_rig(rows) ==
    LET by_rig == SummaryRows(SummaryLoop(rows, Len(rows)), 1)
    IN  Append(by_rig, SummaryRatios(SummaryTotals(by_rig, Len(by_rig))))

(***************************************************************************)
(* build_top_critical_days                                                 *)
(***************************************************************************)
\* line 729: the condition row["horas_totales"] > 0
IsValidRow_any(row) == RLe(Zero, row.horas_totales)
IsValidRow(row) == RLt(Zero, row.horas_totales)

\* line 729: [row for row in daily_rows if row["horas_totales"] > 0]
RECURSIVE ValidRows(_, _)
ValidRows(rows, k) ==
    IF k = 0 THEN <<>>
    ELSE LET before == ValidRows(rows, k - 1)
         IN  IF IsValidRow(rows[k]) THEN Append(before, rows[k]) ELSE before

\* the key of line 730: (r[metric_key], r["fecha_operativa"], r["perforadora"])
CriticalKeyLess(a, b, metric_key) ==
    \/ RLt(a[metric_key], b[metric_key])
    \/ /\ a[metric_key] = b[metric_key]
       /\ \/ a.fecha_operativa[2] < b.fecha_operativa[2]
          \/ /\ a.fecha_operativa = b.fecha_operativa
             /\ RigIndex(a.perforadora) < RigIndex(b.perforadora)

\* sorted(): `row` goes after the rows that are not greater than it
InsertCritical(sorted_rows, row, metric_key) ==
    LET before == {i \in 1..Len(sorted_rows) : ~CriticalKeyLess(row, sorted_rows[i], metric_key)}
        n == Cardinality(before)
    IN  SubSeq(sorted_rows, 1, n) \o <<row>> \o SubSeq(sorted_rows, n + 1, Len(sorted_rows))

RECURSIVE SortCritical(_, _, _)
SortCritical(rows, k, metric_key) ==
    IF k = 0 THEN <<>>
    ELSE InsertCritical(SortCritical(rows, k - 1, metric_key), rows[k], metric_key)

\* lines 733-748: the row of rank idx
CriticalRow(idx, row, metric_key, metric_name) ==
    [ranking |-> idx, metric |-> metric_name,
     perforadora |-> row.perforadora, fecha_operativa |-> row.fecha_operativa,
     valor_ratio |-> row[metric_key], valor_pct |-> RMul(row[metric_key], Hundred),
     horas_efectivo |-> row.horas_efectivo, horas_operativas |-> row.horas_operativas,
     horas_totales |-> row.horas_totales, horas_reserva |-> row.horas_reserva,
     horas_mant_programada |-> row.horas_mant_programada,
     horas_mant_no_programada |-> row.horas_mant_no_programada,
     horas_otras |-> row.horas_otras]

RECURSIVE CriticalRows(_, _, _, _)
CriticalRows(sorted_rows, k, metric_key, metric_name) ==
    IF k = 0 THEN <<>>
    ELSE Append(CriticalRows(sorted_rows, k - 1, metric_key, metric_name),
                CriticalRow(k, sorted_rows[k], metric_key, metric_name))

\* top_n is at least 1 (main, line 1176), so sorted_rows[:top_n] is a prefix
build_top_critical_days(rows, metric_key, metric_name, top_n) ==
    LET valid_rows == ValidRows(rows, Len(rows))
        sorted_rows == SortCritical(valid_rows, Len(valid_rows), metric_key)
        kept == IF top_n < Len(sorted_rows) THEN top_n ELSE Len(sorted_rows)
    IN  CriticalRows(sorted_rows, kept, metric_key, metric_name)

\* the largest --top-dias-criticos drawn
MaxTopN == 3

(***************************************************************************)
(* build_impact_rows and the ratios main passes to it                      *)
(***************************************************************************)
\* main, lines 1223-1224
ImpactDisponibilidadRatio(totals) ==
    IF RLt(Zero, totals.horas_totales)
    THEN RDiv(totals.horas_operativas, totals.horas_totales) ELSE Zero

ImpactUebdRatio(totals) ==
    IF RLt(Zero, totals.horas_operativas)
    THEN RDiv(totals.horas_efectivo, totals.horas_operativas) ELSE Zero

\* hours_by_code.items(); codes of equal hours keep the order of their first
\* event in the source, here a fixed order
RECURSIVE ItemsOf(_)
ItemsOf(keys) ==
    IF keys = {} THEN <<>>
    ELSE LET key == CHOOSE k \in keys : TRUE
         IN  <<key>> \o ItemsOf(keys \ {key})

\* lines 799-812: the row of rank idx
ImpactRow_ratio_as_points(metrica, idx, code, hours, denominator_hours, final_ratio) ==
    [metrica |-> metrica, ranking |-> idx, codigo |-> code, horas |-> hours,
     impacto_ratio |-> RDiv(hours, denominator_hours),
     impacto_pct_points |-> RDiv(hours, denominator_hours),
     denominador_horas |-> denominator_hours,
     valor_final_ratio |-> final_ratio, valor_final_pct |-> RMul(final_ratio, Hundred)]

ImpactRow(metrica, idx, code, hours, denominator_hours, final_ratio) ==
    [metrica |-> metrica, ranking |-> idx, codigo |-> code, horas |-> hours,
     impacto_ratio |-> RDiv(hours, denominator_hours),
     impacto_pct_points |-> RMul(RDiv(hours, denominator_hours), Hundred),
     denominador_horas |-> denominator_hours,
     valor_final_ratio |-> final_ratio, valor_final_pct |-> RMul(final_ratio, Hundred)]

\* build_impact_rows (lines 787-813)
build_impact_rows(metrica, hours_by_code, denominator_hours, final_ratio) ==
    IF RLe(denominator_hours, Zero) THEN <<>>
    ELSE LET codes == ItemsOf(DOMAIN hours_by_code)
             n == Len(codes)
             perm == SortPermDesc([i \in 1..n |-> hours_by_code[codes[i]]], n)
         IN  [idx \in 1..n |->
                 ImpactRow(metrica, idx, codes[perm[idx]], hours_by_code[codes[perm[idx]]],
                           denominator_hours, final_ratio)]
(***************************************************************************)
(* analisis_brecha_2025_vs_feb2026.py: aggregate_daily_data                *)
(***************************************************************************)
NoFilter == 0

base_day_metrics ==
    [horas_totales |-> Zero, horas_operativas |-> Zero, horas_efectivo |-> Zero,
     horas_reserva |-> Zero, horas_mant_programada |-> Zero,
     horas_mant_no_programada |-> Zero, horas_otras |-> Zero]

EmptyAggregation ==
    [daily_metrics |-> << >>, daily_code_uebd |-> << >>, daily_code_disp |-> << >>,
     daily_code_f09 |-> << >>, rows_read |-> 0]

\* daily_code_map[op_day][code] += dur_hours on a defaultdict of defaultdicts
AddCodeHours(daily_code_map, op_day, code, hours) ==
    (op_day :> AddTo(DictGet(daily_code_map, op_day, << >>), code, hours)) @@ daily_code_map

BrechaDurationHours(row, start_dt, end_dt) ==
    LET parsed == to_float_brecha(row.Duration)
        dur_sec ==
            IF parsed # NoFloat THEN parsed
            ELSE IF start_dt # NoDatetime /\ end_dt # NoDatetime
                 THEN RInt(TotalSeconds(end_dt, start_dt))
            ELSE Zero
    IN  RDiv(RMax(dur_sec, Zero), RInt(SecondsPerHour))

\* lines 254-263: an operative bucket and horas_operativas grow together
AddOperative_bucket_only(metrics, field, dur_hours) == Bump(metrics, field, dur_hours)
AddOperative(metrics, field, dur_hours) ==
    Bump(Bump(metrics, field, dur_hours), "horas_operativas", dur_hours)

\* lines 244-267: the hours of one event added to the day's metrics and code maps
AddEventHours(st, op_day, bucket, code, is_f09, dur_hours) ==
    LET m0 == Bump(DictGet(st.daily_metrics, op_day, base_day_metrics),
                   "horas_totales", dur_hours)
        with_f09 == IF is_f09 THEN AddCodeHours(st.daily_code_f09, op_day, code, dur_hours)
                    ELSE st.daily_code_f09
    IN  IF bucket = "mant_programada"
        THEN [st EXCEPT
                !.daily_metrics = (op_day :> Bump(m0, "horas_mant_programada", dur_hours)) @@ @,
                !.daily_code_disp = AddCodeHours(@, op_day, code, dur_hours)]
        ELSE IF bucket = "mant_no_programada"
        THEN [st EXCEPT
                !.daily_metrics = (op_day :> Bump(m0, "horas_mant_no_programada", dur_hours)) @@ @,
                !.daily_code_disp = AddCodeHours(@, op_day, code, dur_hours)]
        ELSE IF bucket = "efectivo"
        THEN [st EXCEPT
                !.daily_metrics =
                    (op_day :> AddOperative(m0, "horas_efectivo", dur_hours)) @@ @]
        ELSE IF bucket = "reserva"
        THEN [st EXCEPT
                !.daily_metrics =
                    (op_day :> AddOperative(m0, "horas_reserva", dur_hours)) @@ @,
                !.daily_code_uebd = AddCodeHours(@, op_day, code, dur_hours),
                !.daily_code_f09 = with_f09]
        ELSE [st EXCEPT
                !.daily_metrics =
                    (op_day :> AddOperative(m0, "horas_otras", dur_hours)) @@ @,
                !.daily_code_uebd = AddCodeHours(@, op_day, code, dur_hours),
                !.daily_code_f09 = with_f09]

\* the body of the row loop of aggregate_daily_data (lines 214-267)
AggregateRow(st, row, filter_year, filter_month) ==
    LET read == [st EXCEPT !.rows_read = @ + 1]
        start_dt == parse_datetime(row.Time)
        end_dt == parse_datetime(row.EndTime)
        op_day == get_operational_day_brecha(row, start_dt)
        dur_hours == BrechaDurationHours(row, start_dt, end_dt)
    IN  IF op_day = NoDate THEN read
        ELSE IF filter_year # NoFilter /\ CivilFromDays(op_day).year # filter_year THEN read
        ELSE IF filter_month # NoFilter /\ CivilFromDays(op_day).month # filter_month THEN read
        ELSE IF RLe(dur_hours, Zero) THEN read
        ELSE AddEventHours(read, op_day, classify_bucket_brecha(row), build_code_label(row),
                           ContainsF09(normalize_text(row.DrillPlan)), dur_hours)

RECURSIVE SortedDays(_)
SortedDays(days) ==
    IF days = {} THEN <<>>
    ELSE LET first == CHOOSE d \in days : \A other \in days : d <= other
         IN  <<first>> \o SortedDays(days \ {first})

AddDayMetrics(totals, m) ==
    [k \in DOMAIN totals |-> RAdd(totals[k], m[k])]

RECURSIVE DayTotals(_, _, _)
DayTotals(daily_metrics, days, k) ==
    IF k = 0 THEN base_day_metrics
    ELSE AddDayMetrics(DayTotals(daily_metrics, days, k - 1), daily_metrics[days[k]])

RECURSIVE AddCodes(_, _, _)
AddCodes(accum, hours_by_code, codes) ==
    IF codes = {} THEN accum
    ELSE LET code == CHOOSE c \in codes : TRUE
         IN  AddCodes(AddTo(accum, code, hours_by_code[code]), hours_by_code, codes \ {code})

RECURSIVE CodeAccum(_, _, _)
CodeAccum(daily_code_map, days, k) ==
    IF k = 0 THEN << >>
    ELSE LET of_day == DictGet(daily_code_map, days[k], << >>)
         IN  AddCodes(CodeAccum(daily_code_map, days, k - 1), of_day, DOMAIN of_day)

avg_code_hours_per_day(daily_code_map, days) ==
    LET accum == CodeAccum(daily_code_map, days, Len(days))
    IN  IF Len(days) <= 0 THEN << >>
        ELSE [code \in DOMAIN accum |-> RDiv(accum[code], RInt(Len(days)))]

BrechaDailyRow(d, m) ==
    [fecha_operativa |-> isoformat(d),
     horas_totales |-> m.horas_totales, horas_operativas |-> m.horas_operativas,
     horas_efectivo |-> m.horas_efectivo, horas_reserva |-> m.horas_reserva,
     horas_mant_programada |-> m.horas_mant_programada,
     horas_mant_no_programada |-> m.horas_mant_no_programada,
     horas_otras |-> m.horas_otras,
     uebd_ratio |-> Ratio(m.horas_efectivo, m.horas_operativas),
     uebd_pct |-> IF RLt(Zero, m.horas_operativas)
                  THEN RMul(RDiv(m.horas_efectivo, m.horas_operativas), Hundred) ELSE Zero,
     disponibilidad_ratio |-> Ratio(m.horas_operativas, m.horas_totales),
     disponibilidad_pct |-> IF RLt(Zero, m.horas_totales)
                  THEN RMul(RDiv(m.horas_operativas, m.horas_totales), Hundred) ELSE Zero]

RECURSIVE BrechaDailyRows(_, _, _)
BrechaDailyRows(daily_metrics, days, k) ==
    IF k = 0 THEN <<>>
    ELSE Append(BrechaDailyRows(daily_metrics, days, k - 1),
                BrechaDailyRow(days[k], daily_metrics[days[k]]))

\* lines 269-319: what aggregate_daily_data returns once the file is read
AggregateResult(st) ==
    LET days == SortedDays(DOMAIN st.daily_metrics)
        day_count == Len(days)
        totals == DayTotals(st.daily_metrics, days, day_count)
    IN  [rows_read |-> st.rows_read,
         days |-> days,
         day_count |-> day_count,
         totals |-> totals,
         avg_hpd |-> [k \in DOMAIN totals |->
                        IF day_count > 0 THEN RDiv(totals[k], RInt(day_count)) ELSE Zero],
         uebd_ratio |-> Ratio(totals.horas_efectivo, totals.horas_operativas),
         disp_ratio |-> Ratio(totals.horas_operativas, totals.horas_totales),
         daily_rows |-> BrechaDailyRows(st.daily_metrics, days, day_count),
         uebd_code_hpd |-> avg_code_hours_per_day(st.daily_code_uebd, days),
         disp_code_hpd |-> avg_code_hours_per_day(st.daily_code_disp, days),
         f09_code_hpd |-> avg_code_hours_per_day(st.daily_code_f09, days)]

RECURSIVE AggregateRows(_, _, _, _)
AggregateRows(file, k, filter_year, filter_month) ==
    IF k = 0 THEN EmptyAggregation
    ELSE AggregateRow(AggregateRows(file, k - 1, filter_year, filter_month), file[k],
                      filter_year, filter_month)

\* aggregate_daily_data on a whole file
aggregate_daily_data(file, filter_year, filter_month) ==
    AggregateResult(AggregateRows(file, Len(file), filter_year, filter_month))

(***************************************************************************)
(* aggregate_monthly_from_daily_rows                                       *)
(***************************************************************************)
NewMonthRecord ==
    [dias |-> 0, horas_totales |-> Zero, horas_operativas |-> Zero, horas_efectivo |-> Zero,
     horas_reserva |-> Zero, horas_mant_programada |-> Zero,
     horas_mant_no_programada |-> Zero, horas_otras |-> Zero]

\* lines 327-351: grouped[month] accumulates the rows of target_year
RECURSIVE MonthLoop(_, _, _)
MonthLoop(rows, k, target_year) ==
    IF k = 0 THEN << >>
    ELSE LET grouped == MonthLoop(rows, k - 1, target_year)
             row == rows[k]
             d == parse_date(row.fecha_operativa)
         IN  IF d = NoDate \/ CivilFromDays(d).year # target_year THEN grouped
             ELSE LET m == CivilFromDays(d).month
                      rec == DictGet(grouped, m, NewMonthRecord)
                  IN  (m :> [rec EXCEPT
                               !.dias = @ + 1,
                               !.horas_totales = RAdd(@, row.horas_totales),
                               !.horas_operativas = RAdd(@, row.horas_operativas),
                               !.horas_efectivo = RAdd(@, row.horas_efectivo),
                               !.horas_reserva = RAdd(@, row.horas_reserva),
                               !.horas_mant_programada = RAdd(@, row.horas_mant_programada),
                               !.horas_mant_no_programada =
                                   RAdd(@, row.horas_mant_no_programada),
                               !.horas_otras = RAdd(@, row.horas_otras)]) @@ grouped

MonthRow(target_year, m, rec) ==
    LET ht == rec.horas_totales
        hop == rec.horas_operativas
        he == rec.horas_efectivo
        uebd_ratio == Ratio(he, hop)
        disp_ratio == Ratio(hop, ht)
        util_ratio == Ratio(he, ht)
    IN  [anio |-> target_year, mes_num |-> m, dias_con_datos |-> rec.dias,
         horas_totales |-> ht, horas_operativas |-> hop, horas_efectivo |-> he,
         horas_reserva |-> rec.horas_reserva,
         horas_mant_programada |-> rec.horas_mant_programada,
         horas_mant_no_programada |-> rec.horas_mant_no_programada,
         horas_otras |-> rec.horas_otras,
         disponibilidad_ratio_real |-> disp_ratio,
         disponibilidad_pct_real |-> RMul(disp_ratio, Hundred),
         utilizacion_ratio_real |-> util_ratio,
         utilizacion_pct_real |-> RMul(util_ratio, Hundred),
         uebd_ratio_real |-> uebd_ratio,
         uebd_pct_real |-> RMul(uebd_ratio, Hundred)]

RECURSIVE MonthRows(_, _, _, _)
MonthRows(grouped, months, k, target_year) ==
    IF k = 0 THEN <<>>
    ELSE Append(MonthRows(grouped, months, k - 1, target_year),
                MonthRow(target_year, months[k], grouped[months[k]]))

aggregate_monthly_from_daily_rows(rows, target_year) ==
    LET grouped == MonthLoop(rows, Len(rows), target_year)
        months == SortedDays(DOMAIN grouped)
    IN  MonthRows(grouped, months, Len(months), target_year)

(***************************************************************************)
(* calculate_operational_metrics.py: main                                  *)
(***************************************************************************)
\* to_float of calculate_operational_metrics.py: 0.0 where the others return None
to_float_calc(value) ==
    IF value[1] = "num" THEN R(value[2], 1) ELSE Zero

\* the defaults of --group-by, --effective-shortcode and --operative-shortcodes
GroupBy == <<"RigName">>
EffectiveShortcode == "Efectivo"
OperativeShortcodes == {"Efectivo", "Demora"}

HoursDecimals == 4
RatioDecimals == 8

NewAccumulator ==
    [k \in {"Horas Efectivas", "Horas Operativas", "Horas Totales"} |-> Zero]

build_group_key(row, group_by) ==
    [i \in 1..Len(group_by) |-> Strip(row[group_by[i]])]

\* line 129: to_float(row.get("Duration")) / 3600.0
CalcDurationHours(row) ==
    RDiv(to_float_calc(row.Duration), RInt(SecondsPerHour))

\* lines 127-136: one row added to the accumulators of its group
CalcRow(acc, row) ==
    LET key == build_group_key(row, GroupBy)
        duration_hours == CalcDurationHours(row)
        short_code == Strip(row.ShortCode)
        old == DictGet(acc, key, NewAccumulator)
        new == [k \in DOMAIN old |->
                   IF \/ k = "Horas Totales"
                      \/ k = "Horas Efectivas" /\ short_code = EffectiveShortcode
                      \/ k = "Horas Operativas" /\ short_code \in OperativeShortcodes
                   THEN RAdd(old[k], duration_hours) ELSE old[k]]
    IN  (key :> new) @@ acc

Pow10(n) == IF n = 4 THEN 10000 ELSE 100000000

\* f"{value:.{decimals}f}": the decimal with that many places nearest to value
format_number(value, decimals) ==
    LET scaled == RMul(value, RInt(Pow10(decimals)))
        twice == 2 * scaled[1] + scaled[2]
        floor_half == twice \div (2 * scaled[2])
        tie == twice % (2 * scaled[2]) = 0
        units == IF tie /\ floor_half % 2 = 1 THEN floor_half - 1 ELSE floor_half
    IN  R(units, Pow10(decimals))

\* lines 142-148: (a / b) / 100.0 if b else 0.0
CalcRatio(numerator, denominator) ==
    IF denominator # Zero THEN RDiv(RDiv(numerator, denominator), Hundred) ELSE Zero

CalcOutputRow(label, values) ==
    [RigName |-> label,
     horas_efectivas |-> format_number(values["Horas Efectivas"], HoursDecimals),
     horas_operativas |-> format_number(values["Horas Operativas"], HoursDecimals),
     horas_totales |-> format_number(values["Horas Totales"], HoursDecimals),
     uebd |-> format_number(CalcRatio(values["Horas Efectivas"], values["Horas Operativas"]),
                            RatioDecimals),
     disponibilidad |-> format_number(CalcRatio(values["Horas Operativas"],
                                                values["Horas Totales"]), RatioDecimals)]

\* group keys in the order sorted() gives them
RECURSIVE SortedGroupKeys(_, _)
SortedGroupKeys(keys, i) ==
    IF i > Len(RigSeq) + 1 THEN <<>>
    ELSE LET name == IF i = 1 THEN "" ELSE RigSeq[i - 1]
         IN  (IF <<name>> \in keys THEN << <<name>> >> ELSE <<>>)
             \o SortedGroupKeys(keys, i + 1)

RECURSIVE CalcGroupRows(_, _, _)
CalcGroupRows(acc, keys, k) ==
    IF k = 0 THEN <<>>
    ELSE Append(CalcGroupRows(acc, keys, k - 1), CalcOutputRow(keys[k][1], acc[keys[k]]))

RECURSIVE CalcTotals(_, _, _)
CalcTotals(acc, keys, k) ==
    IF k = 0 THEN NewAccumulator
    ELSE LET before == CalcTotals(acc, keys, k - 1)
         IN  [f \in DOMAIN before |-> RAdd(before[f], acc[keys[k]][f])]

\* lines 138-186: one output row per group and the TOTAL row
CalcOutputRows(acc) ==
    LET keys == SortedGroupKeys(DOMAIN acc, 1)
    IN  Append(CalcGroupRows(acc, keys, Len(keys)),
               CalcOutputRow("TOTAL", CalcTotals(acc, keys, Len(keys))))

(***************************************************************************)
(* analisis_brecha_2025_vs_feb2026.py: main, the gap analysis              *)
(***************************************************************************)
BaselineYear == 2025
CompareYear == 2026
CompareMonth == 2

parse_ratio_value(value) ==
    IF value = NoFloat THEN NoFloat
    ELSE IF RLt(R(1, 1), value) THEN RDiv(value, Hundred)
    ELSE IF RLt(value, Zero) THEN NoFloat
    ELSE value

\* a monthly target file that was not given on the command line
NoFile == [given |-> FALSE]

\* a monthly target file that is there and cannot be read as a table
Unreadable == [given |-> TRUE, readable |-> FALSE]

\* lines 1273-1300: targets of the long-format monthly table fill what the arguments left open
FromLongTable(current, mensual_2026, field) ==
    IF mensual_2026 \notin {NoFile, Unreadable} /\ current.value = NoFloat
          /\ mensual_2026[field] # NoFloat
    THEN [value |-> mensual_2026[field], source |-> "mensual_2026"]
    ELSE current

\* lines 1302-1324 with the test `uebd_obj is None` dropped
FromA1_overwrites(current, mensual_a1_2026, field) ==
    IF mensual_a1_2026 \notin {NoFile, Unreadable} /\ mensual_a1_2026[field] # NoFloat
    THEN [value |-> mensual_a1_2026[field], source |-> "mensual_a1"]
    ELSE current

\* lines 1302-1324: then the targets of the A1 table; an exception while it is
\* read is caught and reported, and leaves the targets as they are
FromA1(current, mensual_a1_2026, field) ==
    IF mensual_a1_2026 \notin {NoFile, Unreadable} /\ current.value = NoFloat
          /\ mensual_a1_2026[field] # NoFloat
    THEN [value |-> mensual_a1_2026[field], source |-> "mensual_a1"]
    ELSE current

\* lines 1326-1331: at last the ratio of the 2025 baseline
FromBaseline(current, baseline_ratio) ==
    IF current.value = NoFloat
    THEN [value |-> baseline_ratio, source |-> "fallback_baseline_2025"]
    ELSE current

ResolveTarget(argument, mensual_2026, mensual_a1_2026, field, baseline_ratio) ==
    FromBaseline(
        FromA1(
            FromLongTable([value |-> parse_ratio_value(argument), source |-> "argumento"],
                          mensual_2026, field),
            mensual_a1_2026, field),
        baseline_ratio)

\* lines 1336-1337 with the clamp removed
GapPp_unclamped(obj, real) ==
    RMul(RSub(obj, real), Hundred)

\* lines 1336-1337: max((obj - real) * 100.0, 0.0)
GapPp(obj, real) ==
    RMax(RMul(RSub(obj, real), Hundred), Zero)

\* lines 1349-1353: the F09 rows get their potential impact and lost hours
RECURSIVE F09Loop(_, _, _, _)
F09Loop(rows, k, avg_oper_hpd, days) ==
    IF k = 0 THEN <<>>
    ELSE LET row == rows[k]
             lost_hpd == row.delta_horas_dia_positivo
         IN  Append(F09Loop(rows, k - 1, avg_oper_hpd, days),
                    SetField(SetField(row, "impacto_potencial_uebd_pp",
                                      IF RLt(Zero, avg_oper_hpd)
                                      THEN RMul(RDiv(lost_hpd, avg_oper_hpd), Hundred)
                                      ELSE Zero),
                             "perdida_horas_mes", RMul(lost_hpd, RInt(days))))

\* lines 1355-1356: gap_pp / 100.0 * avg_hpd * compared_days
LostHours(gap, avg_hpd, days) ==
    RMul(RMul(RDiv(gap, Hundred), avg_hpd), RInt(days))

Max(a, b) == IF a >= b THEN a ELSE b

(***************************************************************************)
(* The files and arguments main is run on.                                 *)
(***************************************************************************)
LastDayOf2025 ==
    [Time |-> <<"datetime", D_2025_12_31, 8 * 3600>>,
     EndTime |-> <<"datetime", D_2025_12_31, 9 * 3600>>,
     Duration |-> <<"num", 3600>>,
     WorkDayStarted |-> <<"date", D_2025_12_31>>, ShiftName |-> "Turno A"]

\* the 2025 files: a mixed day, a fully effective day, a file without rows of 2025
BaselineFiles ==
    { << MakeRow("PF01", LastDayOf2025, Efectivo), MakeRow("PF01", LastDayOf2025, Demora),
         MakeRow("PF02", LastDayOf2025, MantProgramada) >>,
      << MakeRow("PF01", LastDayOf2025, Efectivo) >>,
      << MakeRow("PF01", January, Efectivo) >> }

CompareRows ==
    { MakeRow("PF01", January, Efectivo),
      MakeRow("PF01", FebruaryFirst, Efectivo),
      MakeRow("PF01", FebruaryFirst, Reserva),
      MakeRow("PF02", FebruarySecond, Demora),
      MakeRow("PF02", FebruarySecond, MantNoProgramada) }

CompareFiles == UNION { [1..n -> CompareRows] : n \in 0..MaxRows }

NoTargets == [uebd_ratio |-> NoFloat, disp_ratio |-> NoFloat]

ArgChoices ==
    { [uebd_objetivo |-> NoFloat, disp_objetivo |-> NoFloat,
       mensual_2026 |-> NoFile, mensual_a1_2026 |-> NoFile],
      [uebd_objetivo |-> R(1, 4), disp_objetivo |-> NoFloat,
       mensual_2026 |-> NoFile, mensual_a1_2026 |-> NoFile],
      [uebd_objetivo |-> R(90, 1), disp_objetivo |-> R(3, 4),
       mensual_2026 |-> NoFile, mensual_a1_2026 |-> NoFile],
      [uebd_objetivo |-> R(-1, 1), disp_objetivo |-> NoFloat,
       mensual_2026 |-> [uebd_ratio |-> R(3, 5), disp_ratio |-> NoFloat],
       mensual_a1_2026 |-> [uebd_ratio |-> R(1, 5), disp_ratio |-> R(4, 5)]],
      [uebd_objetivo |-> NoFloat, disp_objetivo |-> NoFloat,
       mensual_2026 |-> NoTargets,
       mensual_a1_2026 |-> [uebd_ratio |-> R(7, 10), disp_ratio |-> NoFloat]],
      [uebd_objetivo |-> NoFloat, disp_objetivo |-> R(1, 2),
       mensual_2026 |-> NoFile, mensual_a1_2026 |-> Unreadable],
      [uebd_objetivo |-> R(4, 5), disp_objetivo |-> NoFloat,
       mensual_2026 |-> Unreadable, mensual_a1_2026 |-> NoFile] }

(***************************************************************************)
(* comparador_mensual_perforadoras.py: rig identifiers and the totals      *)
(* recalculated without the excluded rigs.  A text is a sequence of        *)
(* one-character strings.                                                  *)
(***************************************************************************)
UpperLetters ==
    <<"A", "B", "C", "D", "E", "F", "G", "H", "I", "J", "K", "L", "M",
      "N", "O", "P", "Q", "R", "S", "T", "U", "V", "W", "X", "Y", "Z">>

LowerLetters ==
    <<"a", "b", "c", "d", "e", "f", "g", "h", "i", "j", "k", "l", "m",
      "n", "o", "p", "q", "r", "s", "t", "u", "v", "w", "x", "y", "z">>

Digits == {"0", "1", "2", "3", "4", "5", "6", "7", "8", "9"}

LetterIndex(letters, ch) == CHOOSE i \in 1..Len(letters) : letters[i] = ch

IsIn(letters, ch) == \E i \in 1..Len(letters) : letters[i] = ch

\* str.lower() on one character
LowerChar(ch) ==
    IF IsIn(UpperLetters, ch) THEN LowerLetters[LetterIndex(UpperLetters, ch)]
    ELSE IF ch = "Á" THEN "á"
    ELSE IF ch = "Ó" THEN "ó"
    ELSE ch

\* NFKD decomposition with the combining marks dropped
BaseChar(ch) ==
    IF ch = "á" THEN "a" ELSE IF ch = "ó" THEN "o" ELSE ch

\* str.upper() on one character
UpperChar(ch) ==
    IF IsIn(LowerLetters, ch) THEN UpperLetters[LetterIndex(LowerLetters, ch)] ELSE ch

RECURSIVE StripText(_)
StripText(txt) ==
    IF txt = <<>> THEN txt
    ELSE IF Head(txt) = " " THEN StripText(Tail(txt))
    ELSE IF txt[Len(txt)] = " " THEN StripText(SubSeq(txt, 1, Len(txt) - 1))
    ELSE txt

\* normalize_text (lines 63-66) on a text
NormalizeChars(txt) ==
    LET stripped == StripText(txt)
    IN  [i \in 1..Len(stripped) |-> BaseChar(LowerChar(stripped[i]))]

\* re.sub(r"[^A-Z0-9]", "", txt): the characters the pattern leaves
KeepsChar(ch) == IsIn(UpperLetters, ch) \/ ch \in Digits

\* normalize_equipo (lines 69-72)
normalize_equipo(value) ==
    LET txt == NormalizeChars(value)
        upper == [i \in 1..Len(txt) |-> UpperChar(txt[i])]
    IN  SelectSeq(upper, KeepsChar)

TotalNames == {<<"T", "O", "T", "A", "L">>, <<"F", "L", "O", "T", "A">>}

\* is_total_equipo (lines 112-113)
is_total_equipo(equipo_norm) == equipo_norm \in TotalNames

\* pct_to_ratio (lines 247-252) on a value that is not None
pct_to_ratio(val) == IF RLt(R(1, 1), val) THEN RDiv(val, Hundred) ELSE val

\* lines 338-352: value_map[(eq, ik, m)] = valor, the last record of a key wins
RECURSIVE ValueMap(_, _)
ValueMap(records, k) ==
    IF k = 0 THEN << >>
    ELSE LET r == records[k]
         IN  (<<r.equipo_norm, r.indice_key, r.mes_num>> :> r.valor)
                 @@ ValueMap(records, k - 1)

RECURSIVE SortedMonths(_)
SortedMonths(months) ==
    IF months = {} THEN <<>>
    ELSE LET first == CHOOSE m \in months : \A other \in months : m <= other
         IN  <<first>> \o SortedMonths(months \ {first})

\* lines 360-389: the sums of one month over the rigs that are neither totals
\* nor excluded; the sums do not depend on the order of the rigs
RECURSIVE MonthSums(_, _, _, _)
MonthSums(value_map, equipos, excluded_equipo_norms, m) ==
    IF equipos = {} THEN [horas_ef_sum |-> Zero, metros_sum |-> Zero, oper_sum |-> Zero,
                          total_sum |-> Zero, included_count |-> 0]
    ELSE LET eq == CHOOSE e \in equipos : TRUE
             sums == MonthSums(value_map, equipos \ {eq}, excluded_equipo_norms, m)
             he == DictGet(value_map, <<eq, "horas_efectivas", m>>, NoFloat)
             me == DictGet(value_map, <<eq, "metros", m>>, NoFloat)
             ut == DictGet(value_map, <<eq, "utilizacion", m>>, NoFloat)
             dp == DictGet(value_map, <<eq, "disponibilidad", m>>, NoFloat)
             ut_ratio == IF ut # NoFloat THEN pct_to_ratio(ut) ELSE NoFloat
             dp_ratio == IF dp # NoFloat THEN pct_to_ratio(dp) ELSE NoFloat
             has_oper == ut_ratio # NoFloat /\ RLt(Zero, ut_ratio)
             oper == IF has_oper THEN RDiv(he, ut_ratio) ELSE Zero
             has_total == has_oper /\ dp_ratio # NoFloat /\ RLt(Zero, dp_ratio)
         IN  IF eq \in excluded_equipo_norms \/ he = NoFloat THEN sums
             ELSE [horas_ef_sum |-> RAdd(sums.horas_ef_sum, he),
                   metros_sum |-> IF me # NoFloat THEN RAdd(sums.metros_sum, me)
                                  ELSE sums.metros_sum,
                   oper_sum |-> IF has_oper THEN RAdd(sums.oper_sum, oper) ELSE sums.oper_sum,
                   total_sum |-> IF has_total THEN RAdd(sums.total_sum, RDiv(oper, dp_ratio))
                                 ELSE sums.total_sum,
                   included_count |-> sums.included_count + 1]

\* lines 391-416: the five rows of one month, in the order of rec_rows
MonthRecalculated(sums, m, excluded_equipo_norms) ==
    LET util_total_pct ==
            IF RLt(Zero, sums.oper_sum)
            THEN RMul(RDiv(sums.horas_ef_sum, sums.oper_sum), Hundred) ELSE NoFloat
        disp_total_pct ==
            IF RLt(Zero, sums.total_sum)
            THEN RMul(RDiv(sums.oper_sum, sums.total_sum), Hundred) ELSE NoFloat
        rend_total ==
            IF RLt(Zero, sums.horas_ef_sum)
            THEN RDiv(sums.metros_sum, sums.horas_ef_sum) ELSE NoFloat
        rec_rows == <<<<"disponibilidad", disp_total_pct>>, <<"utilizacion", util_total_pct>>,
                      <<"rendimiento", rend_total>>, <<"metros", sums.metros_sum>>,
                      <<"horas_efectivas", sums.horas_ef_sum>>>>
    IN  [i \in 1..Len(rec_rows) |->
            [mes_num |-> m, indice_key |-> rec_rows[i][1],
             valor_total_recalculado_sin_excluidas |-> rec_rows[i][2],
             equipos_incluidos |-> sums.included_count,
             equipos_excluidos |-> Cardinality(excluded_equipo_norms)]]

RECURSIVE RecalculatedMonths(_, _, _, _, _)
RecalculatedMonths(value_map, equipos, excluded_equipo_norms, months, k) ==
    IF k = 0 THEN <<>>
    ELSE RecalculatedMonths(value_map, equipos, excluded_equipo_norms, months, k - 1)
             \o MonthRecalculated(
                    MonthSums(value_map, equipos, excluded_equipo_norms, months[k]),
                    months[k], excluded_equipo_norms)

\* the months recalculate_totals makes rows for (line 354)
MonthsOf(records) == {records[i].mes_num : i \in 1..Len(records)}

\* the rigs recalculate_totals may sum (line 355)
EquiposOf(records) ==
    {records[i].equipo_norm : i \in 1..Len(records)} \ TotalNames

\* recalculate_totals (lines 333-439): the list `recalculated`, without the
\* labels of the indices and units
recalculate_totals(records, excluded_equipo_norms) ==
    LET months == SortedMonths(MonthsOf(records))
    IN  RecalculatedMonths(ValueMap(records, Len(records)), EquiposOf(records),
                           excluded_equipo_norms, months, Len(months))

\* one record of parse_mensual_records (lines 216-244) for a cell that holds a number
MensualRecord(equipo_label, indice_key, mes_num, valor) ==
    [equipo |-> StripText(equipo_label), equipo_norm |-> normalize_equipo(StripText(equipo_label)),
     indice_key |-> indice_key, mes_num |-> mes_num, valor |-> valor]

\* main, line 608: the set given as --exclude-equipos
Excluidos(exclude_equipos) ==
    {normalize_equipo(x) : x \in {y \in exclude_equipos : StripText(y) # <<>>}}
(***************************************************************************)
(* Reading one event file: load_daily_metrics and aggregate_daily_data     *)
(* consume the same rows; then main builds the period tables.              *)
(***************************************************************************)
FoldStart ==
    /\ daily = << >>
    /\ shift_daily = << >>
    /\ availability_impact_hours_by_code = << >>
    /\ uebd_impact_hours_by_code = << >>
    /\ availability_impact_hours_by_code_rig = << >>
    /\ uebd_impact_hours_by_code_rig = << >>
    /\ impact_totals = [horas_totales |-> Zero, horas_operativas |-> Zero,
                        horas_efectivo |-> Zero]
    /\ stats = [rows_total |-> 0, rows_without_operational_day |-> 0,
                rows_duration_fallback |-> 0]
    /\ last_row = << >>
    /\ events_read = << >>
    /\ daily_rows = <<>>
    /\ shift_daily_rows = <<>>
    /\ monthly_by_rig = <<>>
    /\ yearly_by_rig = <<>>
    /\ monthly_fleet = <<>>
    /\ yearly_fleet = <<>>
    /\ monthly_real_rows = <<>>
    /\ agg = EmptyAggregation
    /\ accumulators = << >>
    /\ output_rows = <<>>
    /\ resumen_ejecutivo_rows = <<>>
    /\ top_dias_criticos = 1
    /\ top_dias_disp = <<>>
    /\ availability_impact_rows = <<>>
    /\ uebd_impact_rows = <<>>
    /\ top_dias_uebd = <<>>
    /\ agg_result = << >>
    /\ pc = "reading"

AttrIdle ==
    /\ baseline_hpd_by_code = << >>
    /\ compare_hpd_by_code = << >>
    /\ denominator_hpd = Zero
    /\ gap_pp = Zero
    /\ compared_days = 1
    /\ delta_rows = <<>>
    /\ attr_rows = <<>>
    /\ apc = "idle"

MainIdle ==
    /\ args = << >>
    /\ input_2025 = <<>>
    /\ input_2026 = <<>>
    /\ base = << >>
    /\ comp = << >>
    /\ uebd_obj = NoFloat
    /\ disp_obj = NoFloat
    /\ source_uebd = ""
    /\ source_disp = ""
    /\ uebd_gap_pp = Zero
    /\ disp_gap_pp = Zero
    /\ uebd_attr_rows = <<>>
    /\ disp_attr_rows = <<>>
    /\ f09_rows = <<>>
    /\ perdida_horas_uebd = Zero
    /\ perdida_horas_disponibilidad = Zero
    /\ mpc = "idle"

FnIdle ==
    /\ call = [fn |-> "none"]
    /\ result = << >>
    /\ cpc = "idle"

\* line 455: the buckets whose hours go to the Availability-impact accumulators
AffectsAvailability_programada_only(bucket) == bucket = "mant_programada"
AffectsAvailability(bucket) == bucket \in {"mant_programada", "mant_no_programada"}

\* lines 458-464: the operative buckets other than efectivo go to the UEBD-impact
\* accumulators
AffectsUebd_otras_only(bucket) == bucket = "otras"
AffectsUebd(bucket) == ~AffectsAvailability(bucket) /\ bucket # "efectivo"

\* lines 402-417: the dicts and counters load_daily_metrics starts from
NewLoadState ==
    [daily |-> << >>, shift_daily |-> << >>,
     availability_impact_hours_by_code |-> << >>,
     uebd_impact_hours_by_code |-> << >>,
     availability_impact_hours_by_code_rig |-> << >>,
     uebd_impact_hours_by_code_rig |-> << >>,
     impact_totals |-> [horas_totales |-> Zero, horas_operativas |-> Zero,
                        horas_efectivo |-> Zero],
     stats |-> [rows_total |-> 0, rows_without_operational_day |-> 0,
                rows_duration_fallback |-> 0]]

\* the body of the row loop of load_daily_metrics (lines 429-475) on the dicts st
LoadRow(st, row) ==
    LET rig_name == RigNameOf(row)
        start_dt == parse_datetime(row.Time)
        end_dt == parse_datetime(row.EndTime)
        dur == DurationHours(row, start_dt, end_dt)
        duration_hours == dur.hours
        operational_day == get_operational_day(row, start_dt)
        bucket == classify_bucket(row)
        code_label == build_code_label(row)
        shift_name == normalize_shift_name(row.ShiftName)
        key == <<operational_day, rig_name>>
        shift_key == <<operational_day, rig_name, shift_name>>
        maintenance == AffectsAvailability(bucket)
        delay == AffectsUebd(bucket)
        counted == [st EXCEPT
                       !.stats.rows_total = @ + 1,
                       !.stats.rows_duration_fallback = @ + (IF dur.fallback THEN 1 ELSE 0),
                       !.stats.rows_without_operational_day =
                           @ + (IF operational_day = NoDate THEN 1 ELSE 0)]
    IN  IF operational_day = NoDate THEN counted
        ELSE [counted EXCEPT
                 !.impact_totals.horas_totales = RAdd(@, duration_hours),
                 !.impact_totals.horas_operativas =
                     IF maintenance THEN @ ELSE RAdd(@, duration_hours),
                 !.impact_totals.horas_efectivo =
                     IF bucket = "efectivo" THEN RAdd(@, duration_hours) ELSE @,
                 !.availability_impact_hours_by_code =
                     IF maintenance THEN AddTo(@, code_label, duration_hours) ELSE @,
                 !.availability_impact_hours_by_code_rig =
                     IF maintenance
                     THEN AddTo(@, <<rig_name, code_label>>, duration_hours) ELSE @,
                 !.uebd_impact_hours_by_code =
                     IF delay THEN AddTo(@, code_label, duration_hours) ELSE @,
                 !.uebd_impact_hours_by_code_rig =
                     IF delay THEN AddTo(@, <<rig_name, code_label>>, duration_hours) ELSE @,
                 !.daily =
                     (key :> classify_and_add_hours(bucket,
                                DictGet(@, key, build_daily_row(operational_day, rig_name)),
                                duration_hours)) @@ @,
                 !.shift_daily =
                     (shift_key :> classify_and_add_hours(bucket,
                                DictGet(@, shift_key,
                                        build_shift_daily_row(operational_day, rig_name,
                                                              shift_name)),
                                duration_hours)) @@ @]

\* the dicts of load_daily_metrics while the file is read
LoadState ==
    [daily |-> daily, shift_daily |-> shift_daily,
     availability_impact_hours_by_code |-> availability_impact_hours_by_code,
     uebd_impact_hours_by_code |-> uebd_impact_hours_by_code,
     availability_impact_hours_by_code_rig |-> availability_impact_hours_by_code_rig,
     uebd_impact_hours_by_code_rig |-> uebd_impact_hours_by_code_rig,
     impact_totals |-> impact_totals, stats |-> stats]

\* one pass of the row loop of load_daily_metrics on the running script
LoadDailyMetricsRow(row) ==
    LET st == LoadRow(LoadState, row)
    IN  /\ daily' = st.daily
        /\ shift_daily' = st.shift_daily
        /\ availability_impact_hours_by_code' = st.availability_impact_hours_by_code
        /\ uebd_impact_hours_by_code' = st.uebd_impact_hours_by_code
        /\ availability_impact_hours_by_code_rig' = st.availability_impact_hours_by_code_rig
        /\ uebd_impact_hours_by_code_rig' = st.uebd_impact_hours_by_code_rig
        /\ impact_totals' = st.impact_totals
        /\ stats' = st.stats

\* load_daily_metrics on a whole file: the dicts after the loop
RECURSIVE LoadRows(_, _)
LoadRows(file, k) ==
    IF k = 0 THEN NewLoadState ELSE LoadRow(LoadRows(file, k - 1), file[k])

\* one more row of the file is read by the three scripts
ReadRow ==
    /\ pc = "reading"
    /\ stats.rows_total < MaxRows
    /\ \E row \in Rows :
          /\ last_row' = row
          /\ events_read' = (row :> DictGet(events_read, row, 0) + 1) @@ events_read
          /\ LoadDailyMetricsRow(row)
          /\ agg' = AggregateRow(agg, row, NoFilter, NoFilter)
          /\ accumulators' = CalcRow(accumulators, row)
    /\ UNCHANGED <<outVars, periodVars, output_rows, reportVars, pc, attrVars, mainVars, fnVars>>

\* end of the file: the functions sort, derive the ratios and return
EndOfFile ==
    /\ pc = "reading"
    /\ daily_rows' = SortedFinalized(daily)
    /\ shift_daily_rows' = SortedFinalized(shift_daily)
    /\ agg_result' = AggregateResult(agg)
    /\ output_rows' = CalcOutputRows(accumulators)
    /\ pc' = "loaded"
    /\ UNCHANGED <<loadVars, periodVars, agg, accumulators, reportVars, attrVars, mainVars, fnVars>>

\* the period tables built by the two main functions from the daily rows
\* (analisis_tiempos_operativos.py 1187-1190, analisis_brecha_2025_vs_feb2026.py 1265)
AggregatePeriods ==
    /\ pc = "loaded"
    /\ monthly_by_rig' = aggregate_period(daily_rows, "mensual", TRUE)
    /\ yearly_by_rig' = aggregate_period(daily_rows, "anual", TRUE)
    /\ monthly_fleet' = aggregate_period(daily_rows, "mensual", FALSE)
    /\ yearly_fleet' = aggregate_period(daily_rows, "anual", FALSE)
    /\ monthly_real_rows' = aggregate_monthly_from_daily_rows(agg_result.daily_rows, CompareYear)
    /\ pc' = "aggregated"
    /\ UNCHANGED <<loadVars, outVars, agg, calcVars, reportVars, attrVars, mainVars, fnVars>>

\* the executive summary, the two impact tables and the two lists of critical
\* days (analisis_tiempos_operativos.py 1176, 1192, 1218-1237, 1283-1294)
BuildReports ==
    /\ pc = "aggregated"
    /\ resumen_ejecutivo_rows' = aggregate_all_period_by_rig(daily_rows)
    /\ availability_impact_rows' =
           build_impact_rows("disponibilidad", availability_impact_hours_by_code,
                             impact_totals.horas_totales,
                             ImpactDisponibilidadRatio(impact_totals))
    /\ uebd_impact_rows' =
           build_impact_rows("uebd", uebd_impact_hours_by_code,
                             impact_totals.horas_operativas, ImpactUebdRatio(impact_totals))
    /\ \E top_n \in 1..MaxTopN :
          /\ top_dias_criticos' = top_n
          /\ top_dias_disp' =
                 build_top_critical_days(daily_rows, "disponibilidad_ratio",
                                         "disponibilidad", top_n)
          /\ top_dias_uebd' =
                 build_top_critical_days(daily_rows, "uebd_ratio", "uebd", top_n)
    /\ pc' = "reported"
    /\ UNCHANGED <<loadVars, outVars, periodVars, agg, calcVars, attrVars, mainVars, fnVars>>

Init == FoldStart /\ AttrIdle /\ MainIdle /\ FnIdle

Next ==
    \/ ReadRow
    \/ EndOfFile
    \/ AggregatePeriods
    \/ BuildReports

Spec == Init /\ [][Next]_vars

(***************************************************************************)
(* The attribution pipeline on inputs drawn from bounded sets:             *)
(* build_code_delta_rows, then attribute_gap_to_codes, and a re-run of     *)
(* both after one code's compared average was raised.                      *)
(***************************************************************************)
InitAttr ==
    /\ baseline_hpd_by_code \in HpdMaps
    /\ compare_hpd_by_code \in HpdMaps
    /\ denominator_hpd \in DenominatorValues
    /\ gap_pp \in GapValues
    /\ compared_days \in DayValues
    /\ delta_rows = <<>>
    /\ attr_rows = <<>>
    /\ apc = "input"
    /\ FoldStart
    /\ MainIdle
    /\ FnIdle

BuildCodeDeltaRows ==
    /\ apc = "input"
    /\ delta_rows' = build_code_delta_rows(baseline_hpd_by_code, compare_hpd_by_code)
    /\ apc' = "delta"
    /\ UNCHANGED <<baseline_hpd_by_code, compare_hpd_by_code, denominator_hpd, gap_pp,
                   compared_days, attr_rows, foldVars, mainVars, fnVars>>

AttributeGapToCodes ==
    /\ apc = "delta"
    /\ LET res == attribute_gap_to_codes(delta_rows, denominator_hpd, gap_pp, compared_days)
       IN  /\ delta_rows' = res.mutated
           /\ attr_rows' = res.ordered
    /\ apc' = "attributed"
    /\ UNCHANGED <<baseline_hpd_by_code, compare_hpd_by_code, denominator_hpd, gap_pp,
                   compared_days, foldVars, mainVars, fnVars>>

\* Both functions are run again after one code's compared hours per day grew.
RerunWithRaisedComparison ==
    /\ apc \in {"attributed", "reattributed"}
    /\ \E code \in Codes, v \in HpdValues :
          /\ RLt(DictGet(compare_hpd_by_code, code, Zero), v)
          /\ compare_hpd_by_code' =
                [c \in (DOMAIN compare_hpd_by_code) \cup {code} |->
                    IF c = code THEN v ELSE compare_hpd_by_code[c]]
    /\ LET rows == build_code_delta_rows(baseline_hpd_by_code, compare_hpd_by_code')
           res == attribute_gap_to_codes(rows, denominator_hpd, gap_pp, compared_days)
       IN  /\ delta_rows' = res.mutated
           /\ attr_rows' = res.ordered
    /\ apc' = "reattributed"
    /\ UNCHANGED <<baseline_hpd_by_code, denominator_hpd, gap_pp, compared_days, foldVars, mainVars, fnVars>>

NextAttr ==
    \/ BuildCodeDeltaRows
    \/ AttributeGapToCodes
    \/ RerunWithRaisedComparison

SpecAttr == InitAttr /\ [][NextAttr]_vars

(***************************************************************************)
(* main of analisis_brecha_2025_vs_feb2026.py on drawn files and arguments *)
(***************************************************************************)
InitMain ==
    /\ args \in ArgChoices
    /\ input_2025 \in BaselineFiles
    /\ input_2026 \in CompareFiles
    /\ base = << >>
    /\ comp = << >>
    /\ uebd_obj = NoFloat
    /\ disp_obj = NoFloat
    /\ source_uebd = ""
    /\ source_disp = ""
    /\ uebd_gap_pp = Zero
    /\ disp_gap_pp = Zero
    /\ uebd_attr_rows = <<>>
    /\ disp_attr_rows = <<>>
    /\ f09_rows = <<>>
    /\ perdida_horas_uebd = Zero
    /\ perdida_horas_disponibilidad = Zero
    /\ mpc = "start"
    /\ FoldStart
    /\ AttrIdle
    /\ FnIdle

\* lines 1261-1264: the three aggregations and the monthly table of the compared year
MainAggregate ==
    /\ mpc = "start"
    /\ base' = aggregate_daily_data(input_2025, BaselineYear, NoFilter)
    /\ comp' = aggregate_daily_data(input_2026, CompareYear, CompareMonth)
    /\ LET comp_year == aggregate_daily_data(input_2026, CompareYear, NoFilter)
       IN  monthly_real_rows' =
               aggregate_monthly_from_daily_rows(comp_year.daily_rows, CompareYear)
    /\ mpc' = "aggregated"
    /\ UNCHANGED <<args, input_2025, input_2026, targetVars, gapVars, attrVars, loadVars,
                   outVars, monthly_by_rig, yearly_by_rig, monthly_fleet, yearly_fleet,
                   agg, calcVars, reportVars, pc, fnVars>>

\* lines 1266-1331: each target from the first source that has one; an
\* exception of the long-format table readers (lines 1283-1296) is not caught
\* and ends the run
MainResolveTargets ==
    /\ mpc = "aggregated"
    /\ IF args.mensual_2026 = Unreadable
       THEN /\ mpc' = "aborted"
            /\ UNCHANGED targetVars
       ELSE /\ LET uebd == ResolveTarget(args.uebd_objetivo, args.mensual_2026,
                                         args.mensual_a1_2026, "uebd_ratio", base.uebd_ratio)
                   disp == ResolveTarget(args.disp_objetivo, args.mensual_2026,
                                         args.mensual_a1_2026, "disp_ratio", base.disp_ratio)
               IN  /\ uebd_obj' = uebd.value
                   /\ source_uebd' = uebd.source
                   /\ disp_obj' = disp.value
                   /\ source_disp' = disp.source
            /\ mpc' = "targets"
    /\ UNCHANGED <<args, input_2025, input_2026, base, comp, gapVars, attrVars, foldVars, fnVars>>

\* lines 1334-1356: the two gaps, their attribution to codes and the lost hours
MainGapAttribution ==
    /\ mpc = "targets"
    /\ LET uebd_real == comp.uebd_ratio
           disp_real == comp.disp_ratio
           gap_uebd == GapPp(uebd_obj, uebd_real)
           gap_disp == GapPp(disp_obj, disp_real)
           days == Max(comp.day_count, 1)
           avg_oper_hpd == comp.avg_hpd.horas_operativas
           avg_total_hpd == comp.avg_hpd.horas_totales
           uebd_delta_rows == build_code_delta_rows(base.uebd_code_hpd, comp.uebd_code_hpd)
           disp_delta_rows == build_code_delta_rows(base.disp_code_hpd, comp.disp_code_hpd)
           f09_delta_rows == build_code_delta_rows(base.f09_code_hpd, comp.f09_code_hpd)
       IN  /\ uebd_gap_pp' = gap_uebd
           /\ disp_gap_pp' = gap_disp
           /\ uebd_attr_rows' =
                 attribute_gap_to_codes(uebd_delta_rows, avg_oper_hpd, gap_uebd, days).ordered
           /\ disp_attr_rows' =
                 attribute_gap_to_codes(disp_delta_rows, avg_total_hpd, gap_disp, days).ordered
           /\ f09_rows' = F09Loop(f09_delta_rows, Len(f09_delta_rows), avg_oper_hpd, days)
           /\ perdida_horas_disponibilidad' = LostHours(gap_disp, avg_total_hpd, days)
           /\ perdida_horas_uebd' = LostHours(gap_uebd, avg_oper_hpd, days)
    /\ mpc' = "done"
    /\ UNCHANGED <<args, input_2025, input_2026, base, comp, targetVars, attrVars, foldVars, fnVars>>

NextMain ==
    \/ MainAggregate
    \/ MainResolveTargets
    \/ MainGapAttribution

SpecMain == InitMain /\ [][NextMain]_vars

(***************************************************************************)
(* Calls of recalculate_totals: a monthly table, and the same table with   *)
(* other records for the excluded rig.                                     *)
(***************************************************************************)
PF01 == <<"P", "F", "0", "1">>
PF02_lower == <<"p", "f", " ", "0", "2">>
PF03 == <<"P", "F", "0", "3">>
PF03_dash == <<"P", "F", "-", "0", "3">>
PF03_lower == <<"p", "f", "0", "3">>
PF03_underscore == <<" ", "P", "F", "_", "0", "3">>
PFAR_accent == <<"P", "F", "Á", "R">>
TotalLabel == <<"T", "o", "t", "a", "l">>
FlotaLabel == <<"F", "L", "O", "T", "A", " ">>

\* the four indices of one rig in one month
RigMonth(equipo_label, mes_num, he, me, ut, dp) ==
    <<MensualRecord(equipo_label, "horas_efectivas", mes_num, he),
      MensualRecord(equipo_label, "metros", mes_num, me),
      MensualRecord(equipo_label, "utilizacion", mes_num, ut),
      MensualRecord(equipo_label, "disponibilidad", mes_num, dp)>>

\* the records of the rigs that are not excluded and of the total rows
OtherRigTables ==
    { RigMonth(PF01, 1, R(100, 1), R(500, 1), R(50, 1), R(80, 1)),
      RigMonth(PF01, 1, R(100, 1), R(500, 1), R(1, 2), R(4, 5))
          \o RigMonth(TotalLabel, 1, R(300, 1), R(900, 1), R(60, 1), R(90, 1)),
      RigMonth(PF01, 1, R(120, 1), R(600, 1), R(60, 1), R(75, 1))
          \o RigMonth(PF02_lower, 2, R(90, 1), R(300, 1), R(45, 1), R(90, 1))
          \o RigMonth(FlotaLabel, 2, R(400, 1), R(800, 1), R(70, 1), R(85, 1)),
      <<MensualRecord(PF01, "horas_efectivas", 2, R(40, 1)),
        MensualRecord(PF02_lower, "metros", 2, R(70, 1))>> }

\* the records of the excluded rig: none, a month the other rigs have, other
\* values under another spelling, a month only this rig has
ExcludedRigTables ==
    { <<>>,
      RigMonth(PF03_dash, 1, R(50, 1), R(200, 1), R(40, 1), R(70, 1)),
      RigMonth(PF03_lower, 1, R(75, 1), R(10, 1), R(9, 10), R(1, 2))
          \o RigMonth(PF03_underscore, 2, R(20, 1), R(30, 1), R(35, 1), R(65, 1)),
      RigMonth(PFAR_accent, 2, R(60, 1), R(100, 1), R(55, 1), R(95, 1)),
      <<MensualRecord(PF03, "horas_efectivas", 3, R(30, 1))>> }

\* --exclude-equipos as it may be typed
ExcludeArguments ==
    { {PF03, <<"P", "F", "A", "R">>, <<"P", "A", "R", "R">>},
      {<<"p", "f", "-", "0", "3">>, <<" ", "p", "f", "a", "r">>, <<" ">>} }

RecalculateTotalsCalls ==
    { [fn |-> "recalculate_totals", records |-> others \o excluded_records,
       changed |-> others \o changed_records, exclude_equipos |-> exclude_equipos] :
          others \in OtherRigTables, excluded_records \in ExcludedRigTables,
          changed_records \in ExcludedRigTables, exclude_equipos \in ExcludeArguments }
(***************************************************************************)
(* Calls of build_code_label on the code fields of two events.             *)
(***************************************************************************)
OnlyCodeNumberCells == {"", "100", " 100 ", "200", "100_A"}
OnlyCodeNameCells == {"", "Perforando", " Perforando ", "A_Perforando"}
CodeNameCells == {"", "Perforando"}
DelayDataCells == {"  ", "Lluvia"}

CodeFields ==
    [OnlyCodeNumber : OnlyCodeNumberCells, OnlyCodeName : OnlyCodeNameCells,
     CodeName : CodeNameCells, DelayData : DelayDataCells]

BuildCodeLabelCalls ==
    { [fn |-> "build_code_label", first |-> first, second |-> second] :
          first \in CodeFields, second \in CodeFields }
(***************************************************************************)
(* One call of a pure function on arguments drawn from bounded sets.       *)
(***************************************************************************)
ShortCodeTexts ==
    {"", "Efectivo", "EFECTIVO", " efectivo ", "Efectivos", "Reserva", " Reserva ", "RESERVA",
     "Mantencion", "Mantención", "MANTENCIÓN", "Mantenimiento", "Demora"}

PlannedTexts ==
    {"", "Programada", "PROGRAMADA", " programada ", "Programado", "No Programada"}

OnlyCodeNameTexts ==
    {"", "Perforando", "Efectivo", "Efectivo_Perforacion", " Efectivo_Perforacion",
     "EFECTIVO_Traslado"}

ClassifyBucketCalls ==
    { [fn |-> "classify_bucket",
       row |-> [ShortCode |-> short, PlannedCodeName |-> planned, OnlyCodeName |-> name]] :
      short \in ShortCodeTexts, planned \in PlannedTexts, name \in OnlyCodeNameTexts }

D_2026_01_01 == DaysFromCivil(2026, 1, 1)
D_2026_02_10 == DaysFromCivil(2026, 2, 10)
D_2026_02_16 == DaysFromCivil(2026, 2, 16)
D_2026_02_17 == DaysFromCivil(2026, 2, 17)
D_2026_03_01 == DaysFromCivil(2026, 3, 1)

WorkDayStartedCells ==
    { <<"empty">>, <<"junk">>, <<"date", D_2026_02_10>>, <<"date", D_2026_03_01>>,
      <<"datetime", D_2026_02_10, 23 * 3600>> }

StartDays == {D_2026_01_01, D_2026_02_17, D_2026_03_01}

\* 00:00:00, 03:00:00, 20:59:59, 21:00:00, 23:59:59
StartSeconds == {0, 3 * 3600, 21 * 3600 - 1, 21 * 3600, 24 * 3600 - 1}

TimeCells ==
    { <<"empty">>, <<"junk">> } \cup { <<"datetime", d, s>> : d \in StartDays, s \in StartSeconds }

GetOperationalDayCalls ==
    { [fn |-> "get_operational_day", row |-> [WorkDayStarted |-> label, Time |-> time]] :
      label \in WorkDayStartedCells, time \in TimeCells }

\* hours a bucket of a record may hold
HourChoices == {Zero, R(1, 1), R(3, 2)}

\* a record as the row loop leaves it: classify_and_add_hours applied once per
\* bucket to a new daily or day-shift record
FoldedRecord(new_record, efectivo, reserva, programada, no_programada, otras) ==
    classify_and_add_hours("efectivo",
        classify_and_add_hours("reserva",
            classify_and_add_hours("mant_programada",
                classify_and_add_hours("mant_no_programada",
                    classify_and_add_hours("otras", new_record, otras),
                    no_programada),
                programada),
            reserva),
        efectivo)

FinalizeMetricsCalls ==
    { [fn |-> "finalize_metrics",
       row |-> FoldedRecord(new_record, efectivo, reserva, programada, no_programada, otras)] :
      new_record \in {build_daily_row(D_2026_02_16, "PF01"),
                      build_shift_daily_row(D_2026_02_16, "PF02", "Noche")},
      efectivo \in HourChoices, reserva \in HourChoices, programada \in HourChoices,
      no_programada \in HourChoices, otras \in HourChoices }

(***************************************************************************)
(* The three scripts opening an event file: the header, then the rows.     *)
(***************************************************************************)
\* REQUIRED_COLUMNS of analisis_tiempos_operativos.py (lines 205-213), in the
\* order of sorted()
REQUIRED_COLUMNS ==
    <<"Duration", "EndTime", "OnlyCodeName", "PlannedCodeName", "RigName", "ShortCode", "Time">>

\* list(args.group_by) + ["Duration", "ShortCode"] of calculate_operational_metrics.py
CalcRequiredColumns == GroupBy \o <<"Duration", "ShortCode">>

TaggedColumns == {"Time", "EndTime", "Duration", "WorkDayStarted"}

\* a row as csv.DictReader gives it under a header: row.get() of a column the
\* header lacks is None, which every reader treats as an empty cell
DictReaderRow(row, fieldnames) ==
    [c \in DOMAIN row |->
        IF c \in fieldnames THEN row[c]
        ELSE IF c \in TaggedColumns THEN <<"empty">> ELSE ""]

RECURSIVE DictReaderRows(_, _, _)
DictReaderRows(rows, k, fieldnames) ==
    IF k = 0 THEN <<>>
    ELSE Append(DictReaderRows(rows, k - 1, fieldnames), DictReaderRow(rows[k], fieldnames))

\* the required columns the header lacks, in the order of `required`
MissingColumns(fieldnames, required) ==
    SelectSeq(required, LAMBDA column : column \notin fieldnames)

\* a run that raised ValueError("Faltan columnas requeridas: ...") before its loop
Aborted(missing) ==
    [raised |-> TRUE, missing |-> missing, rows_read |-> 0, returned |-> << >>]

\* the loop and the return of load_daily_metrics (lines 429-499)
LoadDailyMetricsLoop(fieldnames, rows) ==
    LET file == DictReaderRows(rows, Len(rows), fieldnames)
        st == LoadRows(file, Len(file))
    IN  [raised |-> FALSE, missing |-> <<>>, rows_read |-> st.stats.rows_total,
         returned |-> SortedFinalized(st.daily)]

\* load_daily_metrics (lines 419-499) on a file with the header `fieldnames`
RunLoadDailyMetrics(fieldnames, rows) ==
    LET missing_cols == MissingColumns(fieldnames, REQUIRED_COLUMNS)
    IN  IF missing_cols # <<>> THEN Aborted(missing_cols)
        ELSE LoadDailyMetricsLoop(fieldnames, rows)

RECURSIVE CalcRows(_, _)
CalcRows(file, k) ==
    IF k = 0 THEN << >> ELSE CalcRow(CalcRows(file, k - 1), file[k])

\* main of calculate_operational_metrics.py (lines 119-189)
RunCalculateOperationalMetrics(fieldnames, rows) ==
    LET missing == MissingColumns(fieldnames, CalcRequiredColumns)
        file == DictReaderRows(rows, Len(rows), fieldnames)
    IN  IF missing # <<>> THEN Aborted(missing)
        ELSE [raised |-> FALSE, missing |-> <<>>, rows_read |-> Len(file),
              returned |-> CalcOutputRows(CalcRows(file, Len(file)))]

\* aggregate_daily_data (lines 212-319): the header is never looked at
RunAggregateDailyData(fieldnames, rows) ==
    LET file == DictReaderRows(rows, Len(rows), fieldnames)
        st == AggregateRows(file, Len(file), NoFilter, NoFilter)
    IN  [raised |-> FALSE, missing |-> <<>>, rows_read |-> st.rows_read,
         returned |-> AggregateResult(st).daily_rows]

EventColumns == DOMAIN MakeRow("PF01", January, Efectivo)

\* columns a drawn header may lack, at most MaxMissing at a time
DroppableColumns == {"RigName", "Duration", "ShortCode", "PlannedCodeName", "WorkDayStarted"}

MaxMissing == 2

Headers ==
    {EventColumns \ dropped :
        dropped \in {d \in SUBSET DroppableColumns : Cardinality(d) <= MaxMissing}}

HeaderRows ==
    {MakeRow("PF01", January, Efectivo), MakeRow("PF02", FebruarySecond, MantNoProgramada),
     MakeRow("PF01", FebruaryFirst, Reserva), MakeRow("PF01", NegativeDuration, Demora)}

MaxFileRows == 2

HeaderFiles ==
    {<<>>} \cup UNION {[1..n -> HeaderRows] : n \in 1..MaxFileRows}

ReadEventFileCalls ==
    { [fn |-> "read_event_file", fieldnames |-> header, rows |-> file] :
      header \in Headers, file \in HeaderFiles }

Calls ==
    ClassifyBucketCalls \cup GetOperationalDayCalls \cup FinalizeMetricsCalls
        \cup ReadEventFileCalls \cup RecalculateTotalsCalls
        \cup BuildCodeLabelCalls

InitFn ==
    /\ call \in Calls
    /\ result = << >>
    /\ cpc = "called"
    /\ FoldStart
    /\ AttrIdle
    /\ MainIdle

\* classify_bucket(row) in each of the two scripts
CallClassifyBucket ==
    /\ cpc = "called"
    /\ call.fn = "classify_bucket"
    /\ result' = [tiempos |-> classify_bucket(call.row),
                  brecha |-> classify_bucket_brecha(call.row)]
    /\ cpc' = "returned"
    /\ UNCHANGED <<call, attrVars, foldVars, mainVars>>

\* get_operational_day(row, parse_datetime(row.get("Time"))) in each of the two scripts
CallGetOperationalDay ==
    /\ cpc = "called"
    /\ call.fn = "get_operational_day"
    /\ LET start_dt == parse_datetime(call.row.Time)
       IN  result' = [tiempos |-> get_operational_day(call.row, start_dt),
                      brecha |-> get_operational_day_brecha(call.row, start_dt)]
    /\ cpc' = "returned"
    /\ UNCHANGED <<call, attrVars, foldVars, mainVars>>

\* finalize_metrics(row) on a record, and once more on the record it left:
\* the function works in place, result keeps the dict before and after the call
CallFinalizeMetrics ==
    /\ cpc \in {"called", "returned"}
    /\ call.fn = "finalize_metrics"
    /\ LET row == IF cpc = "called" THEN call.row ELSE result.after
       IN  result' = [before |-> row, after |-> finalize_metrics(row)]
    /\ cpc' = IF cpc = "called" THEN "returned" ELSE "returned_again"
    /\ UNCHANGED <<call, attrVars, foldVars, mainVars>>

\* each of the three scripts run on the same event file
CallReadEventFile ==
    /\ cpc = "called"
    /\ call.fn = "read_event_file"
    /\ result' = [tiempos |-> RunLoadDailyMetrics(call.fieldnames, call.rows),
                  calc |-> RunCalculateOperationalMetrics(call.fieldnames, call.rows),
                  brecha |-> RunAggregateDailyData(call.fieldnames, call.rows)]
    /\ cpc' = "returned"
    /\ UNCHANGED <<call, attrVars, foldVars, mainVars>>

\* recalculate_totals on a monthly table and on the table with the excluded
\* rig's records replaced
CallRecalculateTotals ==
    /\ cpc = "called"
    /\ call.fn = "recalculate_totals"
    /\ LET excluidos == Excluidos(call.exclude_equipos)
       IN  result' = [recalculated |-> recalculate_totals(call.records, excluidos),
                      changed |-> recalculate_totals(call.changed, excluidos)]
    /\ cpc' = "returned"
    /\ UNCHANGED <<call, attrVars, foldVars, mainVars>>

\* build_code_label(row) on each of two events; the function is the same text
\* in analisis_tiempos_operativos.py and analisis_brecha_2025_vs_feb2026.py
CallBuildCodeLabel ==
    /\ cpc = "called"
    /\ call.fn = "build_code_label"
    /\ result' = [first |-> build_code_label(call.first),
                  second |-> build_code_label(call.second)]
    /\ cpc' = "returned"
    /\ UNCHANGED <<call, attrVars, foldVars, mainVars>>

NextFn ==
    \/ CallReadEventFile
    \/ CallBuildCodeLabel
    \/ CallRecalculateTotals
    \/ CallClassifyBucket
    \/ CallGetOperationalDay
    \/ CallFinalizeMetrics

SpecFn == InitFn /\ [][NextFn]_vars

(***************************************************************************)
(* Properties of the attribution pipeline (checked under SpecAttr).        *)
(***************************************************************************)
Attributed == apc \in {"attributed", "reattributed"}
RowIdx(rows) == 1..Len(rows)
HasGrowth(rows) == \E i \in RowIdx(rows) : RLt(Zero, rows[i].delta_horas_dia_positivo)
GrowingRows(rows) == {i \in RowIdx(rows) : RLt(Zero, rows[i].delta_horas_dia_positivo)}

\* C1: with denominator_hpd > 0, gap_pp > 0 and at least one code with a
\* positive delta, the attributed impacts of the returned rows sum to gap_pp.
C1_AttributionSumsToGap ==
    (Attributed /\ RLt(Zero, denominator_hpd) /\ RLt(Zero, gap_pp) /\ HasGrowth(attr_rows))
        => sum_field(attr_rows, "impacto_atribuido_pp") = gap_pp

C1_Witness ==
    /\ Attributed /\ RLt(Zero, denominator_hpd) /\ RLt(Zero, gap_pp)
    /\ Cardinality(GrowingRows(attr_rows)) >= 2
    /\ \E i, j \in GrowingRows(attr_rows) :
          attr_rows[i].impacto_atribuido_pp # attr_rows[j].impacto_atribuido_pp
    /\ sum_field(attr_rows, "impacto_raw_pp") # gap_pp
    /\ sum_field(attr_rows, "impacto_atribuido_pp") = gap_pp

\* C2: a call with gap_pp = 0 returns rows whose impacto_atribuido_pp and
\* factor_escalamiento are all 0, whatever the hours and the denominator.
C2_ZeroGapLaw ==
    (Attributed /\ gap_pp = Zero)
        => \A i \in RowIdx(attr_rows) :
              /\ attr_rows[i].impacto_atribuido_pp = Zero
              /\ attr_rows[i].factor_escalamiento = Zero

C2_Witness ==
    /\ Attributed /\ gap_pp = Zero /\ RLt(Zero, denominator_hpd)
    /\ \E i \in RowIdx(attr_rows) :
          /\ RLt(Zero, attr_rows[i].impacto_raw_pp)
          /\ attr_rows[i].impacto_atribuido_pp = Zero

ImpactFields ==
    {"impacto_raw_pp", "factor_escalamiento", "impacto_atribuido_pp",
     "perdida_horas_dia_atribuida", "perdida_horas_mes_atribuida"}

\* C3: a call with denominator_hpd <= 0 returns rows whose five impact fields
\* (raw, factor, attributed, hours per day, hours per month) are all 0.
C3_DegenerateDenominatorAllZero ==
    (Attributed /\ RLe(denominator_hpd, Zero))
        => \A i \in RowIdx(attr_rows) : \A f \in ImpactFields :
              f \in DOMAIN attr_rows[i] /\ attr_rows[i][f] = Zero

\* the rows of a call with denominator_hpd <= 0 carry no hours-per-day field
C3_FieldLeftUnset ==
    (Attributed /\ RLe(denominator_hpd, Zero))
        => \A i \in RowIdx(attr_rows) :
              /\ "perdida_horas_dia_atribuida" \notin DOMAIN attr_rows[i]
              /\ \A f \in ImpactFields \ {"perdida_horas_dia_atribuida"} :
                    f \in DOMAIN attr_rows[i] /\ attr_rows[i][f] = Zero

ImpactOf(rows, code) ==
    IF \E i \in RowIdx(rows) : rows[i].codigo = code
    THEN (rows[CHOOSE i \in RowIdx(rows) : rows[i].codigo = code]).impacto_atribuido_pp
    ELSE Zero

RaisedOnly(code) ==
    /\ RLt(DictGet(compare_hpd_by_code, code, Zero), DictGet(compare_hpd_by_code', code, Zero))
    /\ \A c \in Codes \ {code} :
          /\ (c \in DOMAIN compare_hpd_by_code') = (c \in DOMAIN compare_hpd_by_code)
          /\ DictGet(compare_hpd_by_code', c, Zero) = DictGet(compare_hpd_by_code, c, Zero)

\* C4: when one code's compared hours per day grow and the baseline, the other
\* codes, the denominator, the gap and the days stay as they were, that code's
\* impacto_atribuido_pp does not decrease.
C4_Monotone ==
    [][ (/\ Attributed /\ Attributed'
         /\ baseline_hpd_by_code' = baseline_hpd_by_code
         /\ denominator_hpd' = denominator_hpd
         /\ gap_pp' = gap_pp
         /\ compared_days' = compared_days)
        => \A code \in Codes :
              RaisedOnly(code) => RLe(ImpactOf(attr_rows, code), ImpactOf(attr_rows', code)) ]_vars

C4_Witness ==
    /\ apc = "reattributed" /\ RLt(Zero, denominator_hpd) /\ RLt(Zero, gap_pp)
    /\ Cardinality(GrowingRows(attr_rows)) >= 2
    /\ \E i \in RowIdx(attr_rows) :
          /\ RLt(Zero, attr_rows[i].impacto_atribuido_pp)
          /\ RLt(attr_rows[i].impacto_atribuido_pp, gap_pp)

\* C5: build_code_delta_rows gives one row per code of the union of both
\* maps with delta_horas_dia_positivo = max(compared - baseline, 0); after the
\* attribution a code that did not grow has impact 0 and no impact is negative.
C5_OnlyGrowthExplains ==
    (apc # "input") =>
        LET union == (DOMAIN baseline_hpd_by_code) \cup (DOMAIN compare_hpd_by_code)
        IN  /\ Len(delta_rows) = Cardinality(union)
            /\ {delta_rows[i].codigo : i \in RowIdx(delta_rows)} = union
            /\ \A i \in RowIdx(delta_rows) :
                  LET b == DictGet(baseline_hpd_by_code, delta_rows[i].codigo, Zero)
                      c == DictGet(compare_hpd_by_code, delta_rows[i].codigo, Zero)
                  IN  /\ delta_rows[i].baseline_horas_dia = b
                      /\ delta_rows[i].comparado_horas_dia = c
                      /\ delta_rows[i].delta_horas_dia_positivo = RMax(RSub(c, b), Zero)
            /\ Attributed =>
                  /\ {attr_rows[i].codigo : i \in RowIdx(attr_rows)} = union
                  /\ Len(attr_rows) = Cardinality(union)
                  /\ \A i \in RowIdx(attr_rows) :
                        /\ RLe(Zero, attr_rows[i].impacto_atribuido_pp)
                        /\ RLe(DictGet(compare_hpd_by_code, attr_rows[i].codigo, Zero),
                               DictGet(baseline_hpd_by_code, attr_rows[i].codigo, Zero))
                              => attr_rows[i].impacto_atribuido_pp = Zero

C5_Witness ==
    /\ Attributed /\ RLt(Zero, denominator_hpd) /\ RLt(Zero, gap_pp)
    /\ \E i, j \in RowIdx(attr_rows) :
          /\ attr_rows[i].codigo \notin DOMAIN compare_hpd_by_code
          /\ RLt(Zero, attr_rows[i].baseline_horas_dia)
          /\ attr_rows[i].impacto_atribuido_pp = Zero
          /\ RLt(Zero, attr_rows[j].impacto_atribuido_pp)
(***************************************************************************)
(* The ranked attribution table (checked under SpecAttr).                  *)
(***************************************************************************)
RankingFields == {"ranking_impacto", "impacto_acumulado_pp", "participacion_gap_pct"}

PositiveImpact(row) == RMax(row.impacto_atribuido_pp, Zero)

\* the sum of the non-negative attributed impacts of the first k rows
RunningImpact(rows, k) == RSumSeq([i \in 1..k |-> PositiveImpact(rows[i])])

RankedTable(rows) ==
    LET n == Len(rows)
        total == RunningImpact(rows, n)
    IN  /\ \A i \in 1..n : RankingFields \subseteq DOMAIN rows[i]
        /\ \A i \in 1..n : rows[i].ranking_impacto = i
        /\ \A i \in 1..(n - 1) :
               RLe(rows[i + 1].impacto_atribuido_pp, rows[i].impacto_atribuido_pp)
        /\ \A i \in 1..n : rows[i].impacto_acumulado_pp = RunningImpact(rows, i)
        /\ \A i \in 1..(n - 1) :
               RLe(rows[i].impacto_acumulado_pp, rows[i + 1].impacto_acumulado_pp)
        /\ n > 0 => rows[n].impacto_acumulado_pp = total
        /\ \A i \in 1..n :
               rows[i].participacion_gap_pct =
                   (IF RLt(Zero, total)
                    THEN RMul(RDiv(PositiveImpact(rows[i]), total), Hundred) ELSE Zero)
        /\ RLt(Zero, total) => sum_field(rows, "participacion_gap_pct") = Hundred
        /\ \A i, j \in 1..n : rows[i].factor_escalamiento = rows[j].factor_escalamiento

\* C24: on every call attribute_gap_to_codes returns the rows ordered by
\* impacto_atribuido_pp descending with ranking_impacto = 1..n,
\* impacto_acumulado_pp the running sum of the non-negative impacts
\* (non-decreasing, ending at the total), participacion_gap_pct = impact /
\* total positive impact * 100 (summing to 100 when the total is positive, 0 in
\* every row otherwise), and one factor_escalamiento in all rows
C24_RankedAttributionTable == Attributed => RankedTable(attr_rows)

\* the same table for the calls with denominator_hpd > 0
C24_RankedWhenDenominatorPositive ==
    (Attributed /\ RLt(Zero, denominator_hpd)) => RankedTable(attr_rows)

\* the rows of a call with denominator_hpd <= 0 carry no ranking field
C24_RankingLeftUnset ==
    /\ Attributed /\ RLe(denominator_hpd, Zero) /\ Len(attr_rows) >= 2
    /\ \A i \in RowIdx(attr_rows) : RankingFields \cap DOMAIN attr_rows[i] = {}
\* one code with baseline 1.0 and comparison 2.5 hours per day, denominator 20
\* and gap 7.5: factor 1, 7.5 points and 1.5 hours per day attributed
AttributionExample ==
    (/\ apc = "attributed"
     /\ baseline_hpd_by_code = (CodeSeq[1] :> R(1, 1))
     /\ compare_hpd_by_code = (CodeSeq[1] :> R(5, 2))
     /\ denominator_hpd = R(20, 1)
     /\ gap_pp = R(15, 2))
        => /\ Len(attr_rows) = 1
           /\ attr_rows[1].factor_escalamiento = R(1, 1)
           /\ attr_rows[1].impacto_atribuido_pp = R(15, 2)
           /\ attr_rows[1].perdida_horas_dia_atribuida = R(3, 2)
(***************************************************************************)
(* Properties of the daily and period aggregation (checked under Spec).    *)
(***************************************************************************)
SixFields ==
    {"horas_totales", "horas_efectivo", "horas_reserva", "horas_mant_programada",
     "horas_mant_no_programada", "horas_otras"}

RECURSIVE SumOfRows(_, _, _)
SumOfRows(rows, indices, field) ==
    IF indices = {} THEN Zero
    ELSE LET i == CHOOSE j \in indices : TRUE
         IN  RAdd(rows[i][field], SumOfRows(rows, indices \ {i}, field))

\* the four tables of aggregate_period with the arguments that produced them
PeriodTables ==
    { [rows |-> monthly_by_rig, mensual |-> TRUE, by_rig |-> TRUE],
      [rows |-> yearly_by_rig, mensual |-> FALSE, by_rig |-> TRUE],
      [rows |-> monthly_fleet, mensual |-> TRUE, by_rig |-> FALSE],
      [rows |-> yearly_fleet, mensual |-> FALSE, by_rig |-> FALSE] }

\* whether a daily record belongs to the group of a period record
InGroup(day_row, rec, table) ==
    /\ day_row.anio = rec.anio
    /\ table.mensual => day_row.mes = rec.mes
    /\ table.by_rig => day_row.perforadora = rec.perforadora

GroupOf(rec, table) == {i \in RowIdx(daily_rows) : InGroup(daily_rows[i], rec, table)}

PooledOperative(indices) ==
    RMax(RSub(RSub(SumOfRows(daily_rows, indices, "horas_totales"),
                   SumOfRows(daily_rows, indices, "horas_mant_programada")),
              SumOfRows(daily_rows, indices, "horas_mant_no_programada")), Zero)

MeanOfDaily(indices, field) ==
    RDiv(SumOfRows(daily_rows, indices, field), RInt(Cardinality(indices)))

\* C7: the ratios of every period record are computed from the summed
\* durations of the daily records of its group: horas_operativas =
\* max(sum total - sum scheduled - sum unscheduled, 0), disponibilidad_ratio =
\* horas_operativas / sum total, uebd_ratio = sum efectivo / horas_operativas.
C7_RatiosFromSummedDurations ==
    (pc = "aggregated") =>
        /\ \A table \in PeriodTables : \A k \in RowIdx(table.rows) :
              LET rec == table.rows[k]
                  group == GroupOf(rec, table)
                  total == SumOfRows(daily_rows, group, "horas_totales")
                  efectivo == SumOfRows(daily_rows, group, "horas_efectivo")
                  operativas == PooledOperative(group)
              IN  /\ rec.horas_operativas = operativas
                  /\ rec.disponibilidad_ratio =
                        (IF RLt(Zero, total) THEN RDiv(operativas, total) ELSE Zero)
                  /\ rec.uebd_ratio =
                        (IF RLt(Zero, operativas) THEN RDiv(efectivo, operativas) ELSE Zero)
        /\ \A k \in RowIdx(monthly_real_rows) :
              LET rec == monthly_real_rows[k]
                  rows == agg_result.daily_rows
                  group == {i \in RowIdx(rows) :
                               /\ CivilFromDays(rows[i].fecha_operativa[2]).year = rec.anio
                               /\ CivilFromDays(rows[i].fecha_operativa[2]).month = rec.mes_num}
                  total == SumOfRows(rows, group, "horas_totales")
                  efectivo == SumOfRows(rows, group, "horas_efectivo")
                  operativas ==
                      RSub(RSub(total, SumOfRows(rows, group, "horas_mant_programada")),
                           SumOfRows(rows, group, "horas_mant_no_programada"))
              IN  /\ rec.horas_operativas = operativas
                  /\ rec.disponibilidad_ratio_real =
                        (IF RLt(Zero, total) THEN RDiv(operativas, total) ELSE Zero)
                  /\ rec.uebd_ratio_real =
                        (IF RLt(Zero, operativas) THEN RDiv(efectivo, operativas) ELSE Zero)

\* a period record over several days whose ratios are not the mean of the daily ratios
C7_Witness ==
    /\ pc = "aggregated"
    /\ \E table \in PeriodTables : \E k \in RowIdx(table.rows) :
          LET rec == table.rows[k]
              group == GroupOf(rec, table)
          IN  /\ Cardinality(group) >= 2
              /\ RLt(Zero, rec.horas_mant_no_programada)
              /\ rec.disponibilidad_ratio # MeanOfDaily(group, "disponibilidad_ratio")
              /\ rec.uebd_ratio # MeanOfDaily(group, "uebd_ratio")

\* C8: each of the six duration fields of a period record is the sum of that
\* field over the daily records of its group, every daily record belongs to
\* exactly one group of each table, and the table's total is the daily total.
C8_PeriodTotalsArePureSums ==
    (pc = "aggregated") =>
        \A table \in PeriodTables :
            /\ \A k \in RowIdx(table.rows) : \A f \in SixFields :
                  table.rows[k][f] = SumOfRows(daily_rows, GroupOf(table.rows[k], table), f)
            /\ \A i \in RowIdx(daily_rows) :
                  Cardinality({k \in RowIdx(table.rows) :
                                  InGroup(daily_rows[i], table.rows[k], table)}) = 1
            /\ \A f \in SixFields :
                  SumOfRows(table.rows, RowIdx(table.rows), f)
                      = SumOfRows(daily_rows, RowIdx(daily_rows), f)

C8_Witness ==
    /\ pc = "aggregated"
    /\ Len(daily_rows) = 3
    /\ Len(monthly_by_rig) = 2
    /\ Len(monthly_fleet) = 1
    /\ \E k \in RowIdx(monthly_by_rig) :
          /\ monthly_by_rig[k].dias_con_datos = 2
          /\ RLt(Zero, monthly_by_rig[k].horas_otras)
          /\ RLt(Zero, monthly_by_rig[k].horas_efectivo)

RatioBounds(row) ==
    /\ RLe(Zero, row.horas_operativas)
    /\ RLe(row.horas_operativas, row.horas_totales)
    /\ RLe(row.horas_efectivo, row.horas_operativas)
    /\ RLe(Zero, row.disponibilidad_ratio) /\ RLe(row.disponibilidad_ratio, R(1, 1))
    /\ RLe(Zero, row.uebd_ratio) /\ RLe(row.uebd_ratio, R(1, 1))

StrictlyInside(row) ==
    /\ RLt(Zero, row.disponibilidad_ratio) /\ RLt(row.disponibilidad_ratio, R(1, 1))
    /\ RLt(Zero, row.uebd_ratio) /\ RLt(row.uebd_ratio, R(1, 1))

Partitioned(rec) ==
    rec.horas_totales =
        RAdd(RAdd(RAdd(RAdd(rec.horas_efectivo, rec.horas_reserva),
                       rec.horas_mant_programada), rec.horas_mant_no_programada),
             rec.horas_otras)

\* C10: after any sequence of events every daily record and every day-shift
\* record has horas_totales = efectivo + reserva + mant_programada +
\* mant_no_programada + otras, in both scripts.
C10_BucketsPartitionTotal ==
    /\ \A key \in DOMAIN daily : Partitioned(daily[key])
    /\ \A key \in DOMAIN shift_daily : Partitioned(shift_daily[key])
    /\ \A day \in DOMAIN agg.daily_metrics : Partitioned(agg.daily_metrics[day])
    /\ \A i \in RowIdx(daily_rows) : Partitioned(daily_rows[i])
    /\ \A i \in RowIdx(shift_daily_rows) : Partitioned(shift_daily_rows[i])

C10_Witness ==
    /\ stats.rows_total = 3
    /\ \E key \in DOMAIN daily :
          /\ RLt(Zero, daily[key].horas_otras)
          /\ RLt(Zero, daily[key].horas_reserva)
          /\ RLt(Zero, daily[key].horas_mant_programada)
    /\ \E key \in DOMAIN shift_daily :
          /\ RLt(Zero, shift_daily[key].horas_otras)
          /\ RLt(Zero, shift_daily[key].horas_reserva)
          /\ RLt(Zero, shift_daily[key].horas_mant_programada)
    /\ \E day \in DOMAIN agg.daily_metrics :
          /\ RLt(Zero, agg.daily_metrics[day].horas_otras)
          /\ RLt(Zero, agg.daily_metrics[day].horas_reserva)
          /\ RLt(Zero, agg.daily_metrics[day].horas_mant_programada)

(***************************************************************************)
(* Properties of the gap analysis (checked under SpecMain).                *)
(***************************************************************************)
NoImpact(rows) ==
    \A i \in RowIdx(rows) : rows[i].impacto_atribuido_pp = Zero

\* C6: the gap passed to attribution is max((target - realized) * 100, 0)
\* for each metric and is never negative; when the realized ratio of the
\* compared period is >= the target the gap is 0, every code's attributed
\* impact is 0 and the lost hours of that metric are 0.
C6_OnlyDegradationsAttributed ==
    (mpc = "done") =>
        /\ uebd_gap_pp = RMax(RMul(RSub(uebd_obj, comp.uebd_ratio), Hundred), Zero)
        /\ disp_gap_pp = RMax(RMul(RSub(disp_obj, comp.disp_ratio), Hundred), Zero)
        /\ RLe(Zero, uebd_gap_pp)
        /\ RLe(Zero, disp_gap_pp)
        /\ RLe(uebd_obj, comp.uebd_ratio) =>
              /\ uebd_gap_pp = Zero
              /\ NoImpact(uebd_attr_rows)
              /\ perdida_horas_uebd = Zero
        /\ RLe(disp_obj, comp.disp_ratio) =>
              /\ disp_gap_pp = Zero
              /\ NoImpact(disp_attr_rows)
              /\ perdida_horas_disponibilidad = Zero

\* the compared month beats its UEBD target although a delay code grew, and
\* misses its availability target, whose gap is attributed
C6_Witness ==
    /\ mpc = "done"
    /\ RLt(uebd_obj, comp.uebd_ratio)
    /\ RLt(Zero, uebd_obj)
    /\ HasGrowth(uebd_attr_rows)
    /\ uebd_gap_pp = Zero
    /\ RLt(Zero, disp_gap_pp)
    /\ \E i \in RowIdx(disp_attr_rows) : RLt(Zero, disp_attr_rows[i].impacto_atribuido_pp)
    /\ RLt(Zero, perdida_horas_disponibilidad)

(***************************************************************************)
(* Attributed hours (checked under SpecMain).                              *)
(***************************************************************************)
\* the attribution of each metric in main: rows, denominator, gap, lost hours
MetricAttributions ==
    { [rows |-> uebd_attr_rows, denominator |-> comp.avg_hpd.horas_operativas,
       gap |-> uebd_gap_pp, lost |-> perdida_horas_uebd],
      [rows |-> disp_attr_rows, denominator |-> comp.avg_hpd.horas_totales,
       gap |-> disp_gap_pp, lost |-> perdida_horas_disponibilidad] }

ComparedDays == Max(comp.day_count, 1)

HoursFromPoints(rows, denominator, days) ==
    \A i \in RowIdx(rows) :
        /\ rows[i].perdida_horas_dia_atribuida =
               RMul(RDiv(rows[i].impacto_atribuido_pp, Hundred), denominator)
        /\ rows[i].perdida_horas_mes_atribuida =
               RMul(rows[i].perdida_horas_dia_atribuida, RInt(days))

\* C25: when denominator_hpd > 0, every row has perdida_horas_dia_atribuida =
\* impacto_atribuido_pp / 100 * denominator_hpd and perdida_horas_mes_atribuida
\* = perdida_horas_dia_atribuida * compared_days; when the raw sum and the gap
\* are positive the sum of perdida_horas_mes_atribuida over the codes is
\* gap_pp / 100 * denominator_hpd * compared_days, the lost hours of the summary
C25_HoursFromAttributedPoints ==
    (mpc = "done") =>
        \A m \in MetricAttributions :
            RLt(Zero, m.denominator) =>
                /\ HoursFromPoints(m.rows, m.denominator, ComparedDays)
                /\ (RLt(Zero, m.gap) /\ RLt(Zero, sum_field(m.rows, "impacto_raw_pp"))) =>
                       /\ sum_field(m.rows, "perdida_horas_mes_atribuida") =
                              RMul(RMul(RDiv(m.gap, Hundred), m.denominator),
                                   RInt(ComparedDays))
                       /\ sum_field(m.rows, "perdida_horas_mes_atribuida") = m.lost

\* a positive gap attributed with a factor other than 1 to a code that grew
C25_Witness ==
    /\ mpc = "done"
    /\ \E m \in MetricAttributions :
          /\ RLt(Zero, m.denominator) /\ RLt(Zero, m.gap)
          /\ RLt(Zero, sum_field(m.rows, "impacto_raw_pp"))
          /\ sum_field(m.rows, "impacto_raw_pp") # m.gap
          /\ RLt(Zero, m.lost)
          /\ sum_field(m.rows, "perdida_horas_mes_atribuida") = m.lost
(***************************************************************************)
(* Target resolution (checked under SpecMain).                             *)
(***************************************************************************)
\* what the command line supplies: values > 1 are percentages, negative ones nothing
FromArgument(value) ==
    IF value = NoFloat \/ RLt(value, Zero) THEN NoFloat
    ELSE IF RLt(R(1, 1), value) THEN RDiv(value, Hundred)
    ELSE value

\* what a monthly table supplies for a field
FromTable(file, field) == IF file \in {NoFile, Unreadable} THEN NoFloat ELSE file[field]

\* the sources of a target in their order, with the name main gives each
TargetSources(argument, field, baseline_ratio) ==
    << [value |-> FromArgument(argument), source |-> "argumento"],
       [value |-> FromTable(args.mensual_2026, field), source |-> "mensual_2026"],
       [value |-> FromTable(args.mensual_a1_2026, field), source |-> "mensual_a1"],
       [value |-> baseline_ratio, source |-> "fallback_baseline_2025"] >>

FirstSupplied(sources) ==
    sources[CHOOSE i \in 1..Len(sources) :
                /\ sources[i].value # NoFloat
                /\ \A j \in 1..(i - 1) : sources[j].value = NoFloat]

TargetsResolved == mpc \in {"targets", "done"}

C30_A1FailureSurvived ==
    /\ mpc = "done"
    /\ args.mensual_a1_2026 = Unreadable
    /\ source_disp = "argumento"
    /\ source_uebd = "fallback_baseline_2025"
    /\ RLt(Zero, uebd_gap_pp)

\* the long-format table could not be read: the run ends there
C30_LongTableFailureAborts ==
    /\ mpc = "aborted"
    /\ args.mensual_2026 = Unreadable
(***************************************************************************)
(* Properties of the pure functions (checked under SpecFn).                *)
(***************************************************************************)
Returned(fn) == cpc = "returned" /\ call.fn = fn

\* the spellings that are the same word once trimmed, lower-cased and unaccented
EfectivoSpellings == {"Efectivo", "EFECTIVO", " efectivo "}
ReservaSpellings == {"Reserva", " Reserva ", "RESERVA"}
MantencionSpellings == {"Mantencion", "Mantención", "MANTENCIÓN"}
ProgramadaSpellings == {"Programada", "PROGRAMADA", " programada "}
EfectivoPrefixedNames == {"Efectivo_Perforacion", " Efectivo_Perforacion", "EFECTIVO_Traslado"}

ExpectedBucket(row) ==
    IF row.ShortCode \in EfectivoSpellings \/ row.OnlyCodeName \in EfectivoPrefixedNames
    THEN "efectivo"
    ELSE IF row.ShortCode \in ReservaSpellings THEN "reserva"
    ELSE IF row.ShortCode \in MantencionSpellings
         THEN (IF row.PlannedCodeName \in ProgramadaSpellings
               THEN "mant_programada" ELSE "mant_no_programada")
    ELSE "otras"

\* C11: classify_bucket follows the precedence efectivo (ShortCode efectivo or
\* OnlyCodeName starting with efectivo_), reserva, mantencion (programada only
\* when the planned flag is exactly programada), otras; the comparison ignores
\* case, accents and surrounding blanks; the result is one of the five
\* buckets and both scripts return the same one.
C11_ClassificationPrecedence ==
    Returned("classify_bucket") =>
        /\ result.tiempos = ExpectedBucket(call.row)
        /\ result.tiempos \in {"efectivo", "reserva", "mant_programada",
                               "mant_no_programada", "otras"}
        /\ result.brecha = result.tiempos

\* an efectivo_ code name wins over a reserva short code written with blanks
C11_Witness ==
    /\ Returned("classify_bucket")
    /\ call.row.ShortCode = " Reserva "
    /\ call.row.OnlyCodeName = "EFECTIVO_Traslado"
    /\ result.tiempos = "efectivo"
    /\ result.brecha = "efectivo"

ExpectedDay(row) ==
    IF row.WorkDayStarted[1] = "date" THEN row.WorkDayStarted[2]
    ELSE IF row.WorkDayStarted[1] = "datetime" THEN row.WorkDayStarted[2]
    ELSE IF row.Time[1] = "datetime"
         THEN (IF row.Time[3] < 21 * 3600 THEN row.Time[2] - 1 ELSE row.Time[2])
    ELSE NoDate

\* C12: get_operational_day returns the WorkDayStarted date whenever it
\* parses; otherwise the date of (start - 21 h): the previous calendar date
\* for a start before 21:00, the same date from 21:00 on (2026-02-17 03:00:00
\* without label gives 2026-02-16); otherwise None. Both scripts agree.
C12_OperationalDayResolution ==
    Returned("get_operational_day") =>
        /\ result.tiempos = ExpectedDay(call.row)
        /\ result.brecha = ExpectedDay(call.row)
        /\ (call.row = [WorkDayStarted |-> <<"empty">>,
                        Time |-> <<"datetime", D_2026_02_17, 3 * 3600>>])
              => result.tiempos = D_2026_02_16

\* the example of the offset rule, and a month boundary, were resolved
C12_Witness ==
    /\ Returned("get_operational_day")
    /\ call.row.WorkDayStarted = <<"empty">>
    /\ call.row.Time = <<"datetime", D_2026_02_17, 3 * 3600>>
    /\ result.tiempos = D_2026_02_16
    /\ CivilFromDays(result.brecha) = [year |-> 2026, month |-> 2, day |-> 16]


\* the fields finalize_metrics writes
DerivedFields ==
    {"horas_operativas", "horas_disponibles", "disponibilidad_ratio", "disponibilidad_pct",
     "disponibilidad_formula_usuario", "uebd_ratio", "uebd_pct", "uebd_formula_usuario"}

\* C19: finalize_metrics applied to a record it has already finalized leaves
\* it as it is, and every application keeps the keys of the record and the
\* value of every field other than horas_operativas, horas_disponibles and the
\* ratio, percentage and user-formula fields: the six raw totals and the date,
\* year, month, rig and shift are untouched.
C19_FinalizeMetricsIdempotent ==
    (call.fn = "finalize_metrics" /\ cpc # "called") =>
        /\ DOMAIN result.after = DOMAIN result.before
        /\ \A f \in DOMAIN result.before \ DerivedFields : result.after[f] = result.before[f]
        /\ {"fecha_operativa", "anio", "mes", "perforadora"} \cup
               {METRIC_KEYS[i] : i \in 1..Len(METRIC_KEYS)}
               \subseteq DOMAIN result.before \ DerivedFields
        /\ cpc = "returned_again" => result.after = result.before

\* a day-shift record with maintenance and idle hours finalized twice: the
\* first call wrote ratios strictly between 0 and 1, the second changed nothing
C19_Witness ==
    /\ call.fn = "finalize_metrics"
    /\ cpc = "returned_again"
    /\ "turno" \in DOMAIN call.row
    /\ call.row.uebd_ratio = Zero
    /\ RLt(Zero, result.after.uebd_ratio) /\ RLt(result.after.uebd_ratio, R(1, 1))
    /\ RLt(Zero, result.after.disponibilidad_ratio)
    /\ RLt(result.after.disponibilidad_ratio, R(1, 1))
    /\ result.after.horas_totales = call.row.horas_totales


ColumnsOf(required) == {required[i] : i \in 1..Len(required)}

\* a run on a header lacking some of `required` aborted, naming each of them,
\* with no row read and nothing returned
FatalWhenMissing(run, required) ==
    ColumnsOf(required) \ call.fieldnames # {} =>
        /\ run.raised
        /\ ColumnsOf(run.missing) = ColumnsOf(required) \ call.fieldnames
        /\ run.rows_read = 0
        /\ run.returned = << >>

\* C20: in every script that reads the event file (load_daily_metrics,
\* calculate_operational_metrics.main, aggregate_daily_data), a header that
\* lacks a required column aborts the run with an error naming every missing
\* column, before any event is folded and before anything is returned to be
\* written.
C20_MissingColumnsAreFatal ==
    Returned("read_event_file") =>
        /\ FatalWhenMissing(result.tiempos, REQUIRED_COLUMNS)
        /\ FatalWhenMissing(result.calc, CalcRequiredColumns)
        /\ FatalWhenMissing(result.brecha, REQUIRED_COLUMNS)

\* the same statement for the two scripts that look at the header
C20_HeaderCheckingScripts ==
    Returned("read_event_file") =>
        /\ FatalWhenMissing(result.tiempos, REQUIRED_COLUMNS)
        /\ FatalWhenMissing(result.calc, CalcRequiredColumns)

\* a file without the ShortCode column: two scripts abort, aggregate_daily_data
\* folds its rows and returns a daily table
C20_FoldedWithoutShortCode ==
    /\ Returned("read_event_file")
    /\ "ShortCode" \notin call.fieldnames
    /\ result.tiempos.raised /\ result.calc.raised
    /\ ~result.brecha.raised
    /\ result.brecha.rows_read = MaxFileRows
    /\ Len(result.brecha.returned) > 0

(***************************************************************************)
(* Rig exclusion in comparador_mensual_perforadoras.py.                    *)
(***************************************************************************)
\* the recalculated totals of a table: month, index and value of every row
TotalsOf(rows) ==
    {<<rows[i].mes_num, rows[i].indice_key, rows[i].valor_total_recalculado_sin_excluidas>> :
        i \in 1..Len(rows)}

RowMonths(rows) == {rows[i].mes_num : i \in 1..Len(rows)}

SpellingsOfOneRig == {PF03, PF03_dash, PF03_lower, PF03_underscore}

SpellingInsensitive ==
    /\ \A a, b \in SpellingsOfOneRig : normalize_equipo(a) = normalize_equipo(b)
    /\ \A label \in SpellingsOfOneRig : normalize_equipo(label) \in Excluidos(call.exclude_equipos)

\* the rows of the rigs summed as equipment in a table
SummedAsEquipment(records, excluidos) ==
    {i \in 1..Len(records) : /\ records[i].equipo_norm \in EquiposOf(records)
                             /\ records[i].equipo_norm \notin excluidos}

\* C21: the exclusion list matches rig identifiers whatever their spelling,
\* and for every month each recalculated total (horas efectivas, metros,
\* utilizacion, disponibilidad, rendimiento) is the same whether the excluded
\* rig's records are present, absent or changed; total rows are never summed
C21_ExcludedRigContributesNothing ==
    Returned("recalculate_totals") =>
        /\ SpellingInsensitive
        /\ TotalsOf(result.recalculated) = TotalsOf(result.changed)
        /\ \A i \in SummedAsEquipment(call.records, Excluidos(call.exclude_equipos)) :
               ~is_total_equipo(normalize_equipo(call.records[i].equipo))

\* in the months both tables have rows for, the totals and the number of rigs
\* summed are the same with the excluded rig's records present, absent or changed
C21_TotalsOfSharedMonths ==
    Returned("recalculate_totals") =>
        LET shared == RowMonths(result.recalculated) \cap RowMonths(result.changed)
            InShared(rows) == {i \in 1..Len(rows) : rows[i].mes_num \in shared}
        IN  /\ SpellingInsensitive
            /\ {t \in TotalsOf(result.recalculated) : t[1] \in shared}
                   = {t \in TotalsOf(result.changed) : t[1] \in shared}
            /\ {<<result.recalculated[i].mes_num, result.recalculated[i].equipos_incluidos>> :
                    i \in InShared(result.recalculated)}
                   = {<<result.changed[i].mes_num, result.changed[i].equipos_incluidos>> :
                    i \in InShared(result.changed)}

\* a month only the excluded rig has values for gets a block of totals
C21_MonthOfExcludedRigOnly ==
    /\ Returned("recalculate_totals")
    /\ \E m \in RowMonths(result.recalculated) : m \notin RowMonths(result.changed)
(***************************************************************************)
(* Code labels.                                                            *)
(***************************************************************************)
TrimmedFields(row) ==
    <<Strip(row.OnlyCodeNumber), Strip(row.OnlyCodeName), Strip(row.CodeName),
      Strip(row.DelayData)>>

TrimmedPair(row) == <<Strip(row.OnlyCodeNumber), Strip(row.OnlyCodeName)>>

\* the label is a function of the four trimmed fields
LabelIsStable ==
    TrimmedFields(call.first) = TrimmedFields(call.second) => result.first = result.second

\* C22: build_code_label is a deterministic function of the trimmed
\* (OnlyCodeNumber, OnlyCodeName, CodeName, DelayData), and two events whose
\* (OnlyCodeNumber, OnlyCodeName) pairs differ never receive the same label
C22_LabelsStableAndCollisionFree ==
    Returned("build_code_label") =>
        /\ LabelIsStable
        /\ TrimmedPair(call.first) # TrimmedPair(call.second) => result.first # result.second

\* the label is a function of the four trimmed fields, and two events whose
\* code numbers and code names are all present and free of "_" get one label
\* only when their pairs are equal
C22_LabelsStable ==
    Returned("build_code_label") =>
        /\ LabelIsStable
        /\ \A ev \in {call.first, call.second} :
               /\ Strip(ev.OnlyCodeNumber) \in {"100", "200"}
               /\ Strip(ev.OnlyCodeName) = "Perforando"
           => (result.first = result.second
                   => TrimmedPair(call.first) = TrimmedPair(call.second))

\* two events with different code numbers and no code name share a label
C22_LabelsCollide ==
    /\ Returned("build_code_label")
    /\ TrimmedPair(call.first) # TrimmedPair(call.second)
    /\ result.first = result.second
(***************************************************************************)
(* Properties of the row loop of load_daily_metrics and of                 *)
(* aggregate_daily_data (checked under Spec).                              *)
(***************************************************************************)
RowWasRead == stats'.rows_total # stats.rows_total

\* neither WorkDayStarted nor Time is a date or datetime text
HasNoDay(r) ==
    /\ r.WorkDayStarted[1] \notin {"date", "datetime"}
    /\ r.Time[1] # "datetime"

RigOf(r) == IF r.RigName = "" THEN "SIN_RIG" ELSE r.RigName

\* C13: an event with no parseable WorkDayStarted and no parseable Time
\* changes no daily record, no day-shift record, no per-code accumulator and
\* no impact total and adds exactly one to rows_without_operational_day;
\* every other event is folded into exactly one (operational day, rig)
\* record and leaves that counter alone; rows_total grows by one each time.
C13_UnresolvableExcludedAndCounted ==
    [][RowWasRead =>
        /\ stats'.rows_total = stats.rows_total + 1
        /\ IF HasNoDay(last_row')
           THEN /\ stats'.rows_without_operational_day =
                       stats.rows_without_operational_day + 1
                /\ UNCHANGED <<daily, shift_daily, availability_impact_hours_by_code,
                               uebd_impact_hours_by_code,
                               availability_impact_hours_by_code_rig,
                               uebd_impact_hours_by_code_rig, impact_totals>>
           ELSE LET key == <<ExpectedDay(last_row'), RigOf(last_row')>>
                IN  /\ stats'.rows_without_operational_day =
                           stats.rows_without_operational_day
                    /\ DOMAIN daily' = DOMAIN daily \cup {key}
                    /\ \A k \in DOMAIN daily : k # key => daily'[k] = daily[k]
                    /\ Cardinality({k \in DOMAIN shift_daily' :
                                       k \notin DOMAIN shift_daily
                                       \/ shift_daily'[k] # shift_daily[k]}) <= 1
                    /\ \A k \in DOMAIN shift_daily' :
                          (k \notin DOMAIN shift_daily \/ shift_daily'[k] # shift_daily[k])
                              => <<k[1], k[2]>> = key
    ]_vars

\* a file of three rows: one without operational day after two folded ones
C13_Witness ==
    /\ stats.rows_total = 3
    /\ stats.rows_without_operational_day = 1
    /\ HasNoDay(last_row)
    /\ Cardinality(DOMAIN daily) = 2
    /\ RLt(Zero, impact_totals.horas_totales)

\* the hours of an event: Duration when it is a number, else EndTime - Time
\* when both are datetimes, else 0; a negative value counts as 0
ExpectedHours(r) ==
    LET seconds ==
            IF r.Duration[1] = "num" THEN r.Duration[2]
            ELSE IF r.Time[1] = "datetime" /\ r.EndTime[1] = "datetime"
                 THEN (r.EndTime[2] - r.Time[2]) * SecondsPerDay + (r.EndTime[3] - r.Time[3])
            ELSE 0
    IN  R(IF seconds < 0 THEN 0 ELSE seconds, SecondsPerHour)

NoTotalDecreases(before, after, fields) ==
    \A key \in DOMAIN before :
        /\ key \in DOMAIN after
        /\ \A f \in fields : RLe(before[key][f], after[key][f])

NoHoursDecrease(before, after) ==
    \A key \in DOMAIN before : key \in DOMAIN after /\ RLe(before[key], after[key])

\* what load_daily_metrics adds is never negative and follows the duration rule
TiemposNeverNegative ==
    /\ NoTotalDecreases(daily, daily', SixFields)
    /\ NoTotalDecreases(shift_daily, shift_daily', SixFields)
    /\ NoHoursDecrease(availability_impact_hours_by_code, availability_impact_hours_by_code')
    /\ NoHoursDecrease(uebd_impact_hours_by_code, uebd_impact_hours_by_code')
    /\ \A f \in DOMAIN impact_totals : RLe(impact_totals[f], impact_totals'[f])
    /\ ~HasNoDay(last_row') =>
          impact_totals'.horas_totales =
              RAdd(impact_totals.horas_totales, ExpectedHours(last_row'))

\* what aggregate_daily_data adds is never negative and follows the duration rule
BrechaNeverNegative ==
    /\ NoTotalDecreases(agg.daily_metrics, agg'.daily_metrics, DOMAIN base_day_metrics)
    /\ ~HasNoDay(last_row') =>
          LET day == ExpectedDay(last_row')
              before == DictGet(agg.daily_metrics, day, base_day_metrics).horas_totales
              after == DictGet(agg'.daily_metrics, day, base_day_metrics).horas_totales
          IN  after = RAdd(before, ExpectedHours(last_row'))

\* what calculate_operational_metrics.main adds is never negative and follows the rule
CalcNeverNegative ==
    /\ NoTotalDecreases(accumulators, accumulators', DOMAIN NewAccumulator)
    /\ LET key == <<last_row'.RigName>>
           before == DictGet(accumulators, key, NewAccumulator)["Horas Totales"]
       IN  accumulators'[key]["Horas Totales"] = RAdd(before, ExpectedHours(last_row'))

\* C14: in load_daily_metrics, aggregate_daily_data and
\* calculate_operational_metrics.main the hours an event adds are >= 0: the
\* Duration when it parses, else EndTime - Time when both parse, else 0, a
\* negative value counting as 0; no accumulated hour total ever decreases.
C14_DurationsNeverNegative ==
    [][RowWasRead => TiemposNeverNegative /\ BrechaNeverNegative /\ CalcNeverNegative]_vars

\* the same statement for the two scripts that clamp the duration
C14_ClampingScripts ==
    [][RowWasRead => TiemposNeverNegative /\ BrechaNeverNegative]_vars

\* calculate_operational_metrics.main ends with a negative total
C14_NegativeTotalReached ==
    /\ pc = "loaded"
    /\ \E i \in RowIdx(output_rows) : RLt(output_rows[i].horas_totales, Zero)
    /\ \A i \in RowIdx(daily_rows) : RLe(Zero, daily_rows[i].horas_totales)

\* the hours by which one entry of a per-code accumulator grew
HoursAdded(before, after, code) ==
    RSub(DictGet(after, code, Zero), DictGet(before, code, Zero))

OtherCodesUnchanged(before, after, code) ==
    \A c \in (DOMAIN before \cup DOMAIN after) \ {code} :
        c \in DOMAIN before /\ c \in DOMAIN after /\ before[c] = after[c]

\* the accumulator of `code` grew by `hours` exactly when `routed` holds
RoutedIff(routed, before, after, code, hours) ==
    /\ HoursAdded(before, after, code) = (IF routed THEN hours ELSE Zero)
    /\ OtherCodesUnchanged(before, after, code)

\* routing of the event just read, in load_daily_metrics and in
\* aggregate_daily_data, when the UEBD-impact accumulators take the buckets
\* of uebd_buckets
AccumulatorRouting(uebd_buckets) ==
    LET r == last_row'
        hours == ExpectedHours(r)
        bucket == ExpectedBucket(r)
        code == build_code_label(r)
        day == ExpectedDay(r)
        maintenance == bucket \in {"mant_programada", "mant_no_programada"}
        operative == IF maintenance THEN Zero ELSE hours
        m_before == DictGet(agg.daily_metrics, day, base_day_metrics)
        m_after == DictGet(agg'.daily_metrics, day, base_day_metrics)
    IN  /\ RoutedIff(maintenance, availability_impact_hours_by_code,
                     availability_impact_hours_by_code', code, hours)
        /\ RoutedIff(bucket \in uebd_buckets, uebd_impact_hours_by_code,
                     uebd_impact_hours_by_code', code, hours)
        /\ impact_totals'.horas_operativas = RAdd(impact_totals.horas_operativas, operative)
        /\ RoutedIff(maintenance, DictGet(agg.daily_code_disp, day, << >>),
                     DictGet(agg'.daily_code_disp, day, << >>), code, hours)
        /\ RoutedIff(bucket \in uebd_buckets, DictGet(agg.daily_code_uebd, day, << >>),
                     DictGet(agg'.daily_code_uebd, day, << >>), code, hours)
        /\ m_after.horas_operativas = RAdd(m_before.horas_operativas, operative)

\* C15: an event's hours are added to the Availability-impact accumulator of
\* its code if and only if its bucket is scheduled or unscheduled maintenance;
\* otherwise they are added to the operative total, and they are added to the
\* UEBD-impact accumulator of its code if and only if its bucket is Other
\* (not Effective and not Reserve).
C15_UebdImpactOnlyFromOther ==
    [][RowWasRead /\ ~HasNoDay(last_row') => AccumulatorRouting({"otras"})]_vars

\* C15 (amended): the same routing, with the UEBD-impact accumulator taking
\* the hours of every operative event that is not Effective: the buckets
\* Reserve and Other.
C15_UebdImpactFromReserveAndOther ==
    [][RowWasRead /\ ~HasNoDay(last_row') => AccumulatorRouting({"reserva", "otras"})]_vars

\* a Reserve event with positive hours sits in the UEBD-impact accumulators of
\* both scripts, next to a maintenance code in the Availability-impact ones
C15_Witness ==
    /\ pc = "reading"
    /\ last_row # << >>
    /\ ExpectedBucket(last_row) = "reserva"
    /\ RLt(Zero, ExpectedHours(last_row))
    /\ RLt(Zero, DictGet(uebd_impact_hours_by_code, build_code_label(last_row), Zero))
    /\ \E day \in DOMAIN agg.daily_code_uebd :
          RLt(Zero, DictGet(agg.daily_code_uebd[day], build_code_label(last_row), Zero))
    /\ \E code \in DOMAIN availability_impact_hours_by_code :
          RLt(Zero, availability_impact_hours_by_code[code])

\* a float the division produced without a fault
WellFormed(x) == x[2] > 0

\* the tables of analisis_tiempos_operativos.py that carry the two ratios
RatioTables ==
    <<daily_rows, shift_daily_rows, monthly_by_rig, yearly_by_rig, monthly_fleet,
      yearly_fleet, resumen_ejecutivo_rows>>

ZeroDenominatorIsZeroRatio(rec) ==
    /\ WellFormed(rec.disponibilidad_ratio) /\ WellFormed(rec.uebd_ratio)
    /\ WellFormed(rec.disponibilidad_pct) /\ WellFormed(rec.uebd_pct)
    /\ WellFormed(rec.disponibilidad_formula_usuario)
    /\ WellFormed(rec.uebd_formula_usuario)
    /\ RLe(Zero, rec.horas_operativas)
    /\ rec.horas_totales = Zero => rec.disponibilidad_ratio = Zero
    /\ rec.horas_operativas = Zero => rec.uebd_ratio = Zero

\* C16: in every daily, day-shift, period and per-rig summary record,
\* disponibilidad_ratio is 0 when horas_totales is 0 and uebd_ratio is 0 when
\* horas_operativas is 0, horas_operativas is never negative, and every
\* division is made on a positive denominator.
C16_ZeroDenominatorsAreValues ==
    /\ \A t \in DOMAIN RatioTables : \A i \in RowIdx(RatioTables[t]) :
          ZeroDenominatorIsZeroRatio(RatioTables[t][i])
    /\ \A t \in 3..6 : \A i \in RowIdx(RatioTables[t]) :
          /\ WellFormed(RatioTables[t][i].promedio_diario_efectivo_h)
          /\ WellFormed(RatioTables[t][i].promedio_diario_reserva_h)
          /\ WellFormed(RatioTables[t][i].promedio_diario_mant_programada_h)
          /\ WellFormed(RatioTables[t][i].promedio_diario_mant_no_programada_h)

\* all the tables are built from a file with a day that is entirely
\* maintenance and a day whose only event has no duration
C16_Witness ==
    /\ pc = "reported"
    /\ \E i, j \in RowIdx(daily_rows) :
          /\ RLt(Zero, daily_rows[i].horas_totales)
          /\ daily_rows[i].horas_operativas = Zero
          /\ daily_rows[i].uebd_ratio = Zero
          /\ daily_rows[j].horas_totales = Zero
          /\ daily_rows[j].disponibilidad_ratio = Zero
    /\ \E k \in RowIdx(resumen_ejecutivo_rows) :
          /\ resumen_ejecutivo_rows[k].perforadora # "TOTAL"
          /\ resumen_ejecutivo_rows[k].horas_operativas = Zero
          /\ resumen_ejecutivo_rows[k].uebd_ratio = Zero
    /\ \E k \in RowIdx(monthly_by_rig) :
          /\ monthly_by_rig[k].horas_totales = Zero
          /\ monthly_by_rig[k].disponibilidad_ratio = Zero

\* the daily records build_top_critical_days may list
Eligible == {i \in RowIdx(daily_rows) : RLt(Zero, daily_rows[i].horas_totales)}

\* (ratio, date, rig) of a is smaller than that of b
SortKeyLess(a_ratio, a_date, a_rig, b_ratio, b_date, b_rig) ==
    \/ RLt(a_ratio, b_ratio)
    \/ a_ratio = b_ratio /\ a_date[2] < b_date[2]
    \/ a_ratio = b_ratio /\ a_date = b_date /\ RigIndex(a_rig) < RigIndex(b_rig)

\* top lists the daily record i
Listed(top, i) ==
    \E k \in RowIdx(top) :
        /\ top[k].perforadora = daily_rows[i].perforadora
        /\ top[k].fecha_operativa = daily_rows[i].fecha_operativa

CriticalDaysSelected(top, metric_key) ==
    LET wanted == IF top_dias_criticos < Cardinality(Eligible)
                  THEN top_dias_criticos ELSE Cardinality(Eligible)
    IN  /\ Len(top) = wanted
        /\ \A k \in RowIdx(top) :
              /\ top[k].ranking = k
              /\ RLt(Zero, top[k].horas_totales)
              /\ \E i \in Eligible :
                    /\ top[k].perforadora = daily_rows[i].perforadora
                    /\ top[k].fecha_operativa = daily_rows[i].fecha_operativa
                    /\ top[k].valor_ratio = daily_rows[i][metric_key]
                    /\ top[k].horas_totales = daily_rows[i].horas_totales
        /\ \A k, l \in RowIdx(top) :
              k < l => SortKeyLess(top[k].valor_ratio, top[k].fecha_operativa,
                                   top[k].perforadora, top[l].valor_ratio,
                                   top[l].fecha_operativa, top[l].perforadora)
        /\ \A i \in Eligible : \A k \in RowIdx(top) :
              ~Listed(top, i) =>
                  ~SortKeyLess(daily_rows[i][metric_key], daily_rows[i].fecha_operativa,
                               daily_rows[i].perforadora, top[k].valor_ratio,
                               top[k].fecha_operativa, top[k].perforadora)

\* C17: build_top_critical_days returns exactly min(top_n, number of daily
\* records with horas_totales > 0) rows, never a record with horas_totales = 0,
\* in ascending order of (metric ratio, operational date, rig), ranked 1..k in
\* that order, and no eligible record left out has a smaller key than a listed one.
C17_CriticalDaySelection ==
    pc = "reported" =>
        /\ CriticalDaysSelected(top_dias_disp, "disponibilidad_ratio")
        /\ CriticalDaysSelected(top_dias_uebd, "uebd_ratio")

\* two lists cut to fewer rows than there are eligible days, with a day of no
\* hours left out, and the two metrics ranking different days first
C17_Witness ==
    /\ pc = "reported"
    /\ top_dias_criticos < Cardinality(Eligible)
    /\ \E i \in RowIdx(daily_rows) : daily_rows[i].horas_totales = Zero
    /\ Len(top_dias_disp) = top_dias_criticos
    /\ top_dias_disp[1].fecha_operativa # top_dias_uebd[1].fecha_operativa

\* the rows of a multiset of events, in an order that does not depend on the
\* order in which they were read
RECURSIVE EventsInOrder(_)
EventsInOrder(events) ==
    IF DOMAIN events = {} THEN <<>>
    ELSE LET first == CHOOSE r \in DOMAIN events : TRUE
             others == IF events[first] > 1 THEN [events EXCEPT ![first] = @ - 1]
                       ELSE [r \in DOMAIN events \ {first} |-> events[r]]
         IN  <<first>> \o EventsInOrder(others)

Reversed(s) == [i \in 1..Len(s) |-> s[Len(s) + 1 - i]]

\* the rows of a table are in strictly ascending order of (date, rig[, shift])
SortedByKey(rows, with_shift) ==
    \A i, j \in RowIdx(rows) :
        i < j => KeyLess(<<rows[i].fecha_operativa[2], rows[i].perforadora>>
                             \o (IF with_shift THEN <<rows[i].turno>> ELSE <<>>),
                         <<rows[j].fecha_operativa[2], rows[j].perforadora>>
                             \o (IF with_shift THEN <<rows[j].turno>> ELSE <<>>))

OperationalDaysOf(indices) ==
    {<<daily_rows[i].perforadora, daily_rows[i].fecha_operativa>> : i \in indices}

DatesOf(indices) == {daily_rows[i].fecha_operativa : i \in indices}

OnlyPositiveDurations ==
    \A r \in DOMAIN events_read : HasNoDay(r) \/ RLt(Zero, ExpectedHours(r))

\* the (day, rig) records of load_daily_metrics of one fleet day
RigRecordsOf(fecha_operativa) ==
    {i \in RowIdx(daily_rows) : daily_rows[i].fecha_operativa = fecha_operativa}

RECURSIVE SumOfHours(_, _)
SumOfHours(dict, keys) ==
    IF keys = {} THEN Zero
    ELSE LET key == CHOOSE k \in keys : TRUE
         IN  RAdd(dict[key], SumOfHours(dict, keys \ {key}))

\* the sum of one field of the records of a dict over some of its keys
RECURSIVE SumOfRecords(_, _, _)
SumOfRecords(dict, keys, field) ==
    IF keys = {} THEN Zero
    ELSE LET key == CHOOSE k \in keys : TRUE
         IN  RAdd(dict[key][field], SumOfRecords(dict, keys \ {key}, field))

\* the per-(rig, code) accumulator summed over the rigs is the per-code one
SumsOverRigs(by_code_rig, by_code) ==
    /\ {key[2] : key \in DOMAIN by_code_rig} = DOMAIN by_code
    /\ \A code \in DOMAIN by_code :
           SumOfHours(by_code_rig, {key \in DOMAIN by_code_rig : key[2] = code})
               = by_code[code]

\* the day-shift records of a (day, rig)
ShiftsOf(key) == {sk \in DOMAIN shift_daily : <<sk[1], sk[2]>> = key}

\* C27: after any sequence of events, impact_totals.horas_totales and
\* horas_efectivo are the sums of those fields over the daily records, the
\* Availability-impact accumulator sums to the maintenance hours, the
\* UEBD-impact accumulator sums to impact_totals.horas_operativas -
\* horas_efectivo, every per-(rig, code) accumulator summed over the rigs is
\* the per-code accumulator, and the day-shift records of a (day, rig) sum to
\* its daily record
C27_AccumulatorsMatchDailyRecords ==
    LET days == DOMAIN daily
    IN  /\ impact_totals.horas_totales = SumOfRecords(daily, days, "horas_totales")
        /\ impact_totals.horas_efectivo = SumOfRecords(daily, days, "horas_efectivo")
        /\ SumOfHours(availability_impact_hours_by_code,
                      DOMAIN availability_impact_hours_by_code)
               = RAdd(SumOfRecords(daily, days, "horas_mant_programada"),
                      SumOfRecords(daily, days, "horas_mant_no_programada"))
        /\ SumOfHours(uebd_impact_hours_by_code, DOMAIN uebd_impact_hours_by_code)
               = RSub(impact_totals.horas_operativas, impact_totals.horas_efectivo)
        /\ SumsOverRigs(availability_impact_hours_by_code_rig,
                        availability_impact_hours_by_code)
        /\ SumsOverRigs(uebd_impact_hours_by_code_rig, uebd_impact_hours_by_code)
        /\ {<<sk[1], sk[2]>> : sk \in DOMAIN shift_daily} = days
        /\ \A key \in days : \A f \in SixFields :
               SumOfRecords(shift_daily, ShiftsOf(key), f) = daily[key][f]

\* three events folded: a code on two rigs, two shifts of one (day, rig),
\* maintenance and delay hours
C27_Witness ==
    /\ stats.rows_total = 3
    /\ \E code \in DOMAIN availability_impact_hours_by_code :
          Cardinality({key \in DOMAIN availability_impact_hours_by_code_rig :
                          key[2] = code}) = 2
    /\ \E key \in DOMAIN daily : Cardinality(ShiftsOf(key)) = 2
    /\ RLt(Zero, SumOfHours(uebd_impact_hours_by_code, DOMAIN uebd_impact_hours_by_code))
(***************************************************************************)
(* The impact tables of analisis_tiempos_operativos.py.                    *)
(***************************************************************************)
\* the two tables with the denominator and the final ratio main passed
ImpactTables ==
    { [rows |-> availability_impact_rows, denominator |-> impact_totals.horas_totales,
       final_ratio |-> ImpactDisponibilidadRatio(impact_totals),
       hours_by_code |-> availability_impact_hours_by_code],
      [rows |-> uebd_impact_rows, denominator |-> impact_totals.horas_operativas,
       final_ratio |-> ImpactUebdRatio(impact_totals),
       hours_by_code |-> uebd_impact_hours_by_code] }

\* C28: when the denominator is positive, the impacto_pct_points of the rows
\* of an impact table plus valor_final_pct make 100, for Availability
\* (maintenance codes over total hours) and for UEBD (non-effective operative
\* codes over operative hours); with a denominator <= 0 the table is empty
C28_ImpactPointsCloseToHundred ==
    (pc = "reported") =>
        \A table \in ImpactTables :
            IF RLt(Zero, table.denominator)
            THEN /\ Len(table.rows) = Cardinality(DOMAIN table.hours_by_code)
                 /\ \A i \in RowIdx(table.rows) :
                        /\ table.rows[i].valor_final_pct = RMul(table.final_ratio, Hundred)
                        /\ table.rows[i].horas = table.hours_by_code[table.rows[i].codigo]
                 /\ RAdd(sum_field(table.rows, "impacto_pct_points"),
                         RMul(table.final_ratio, Hundred)) = Hundred
            ELSE table.rows = <<>>

\* both tables have rows, the availability table two, and availability is
\* neither 0 nor 100
C28_Witness ==
    /\ pc = "reported"
    /\ Len(availability_impact_rows) = 2
    /\ Len(uebd_impact_rows) = 1
    /\ RLt(Zero, uebd_impact_rows[1].impacto_pct_points)
    /\ RLt(Zero, availability_impact_rows[1].valor_final_pct)
    /\ RLt(availability_impact_rows[2].impacto_pct_points,
           availability_impact_rows[1].impacto_pct_points)

\* a file whose events are all maintenance: no operative hours, no UEBD table
C28_EmptyTable ==
    /\ pc = "reported"
    /\ RLt(Zero, impact_totals.horas_totales)
    /\ impact_totals.horas_operativas = Zero
    /\ availability_impact_rows # <<>>
    /\ uebd_impact_rows = <<>>
(***************************************************************************)
(* Events whose resolved duration is zero.                                 *)
(***************************************************************************)
\* the loop read an event whose Duration is absent, unparseable or negative
\* with no positive EndTime - Time
ZeroDurationRead == RowWasRead /\ ExpectedHours(last_row') = Zero

\* the four period tables main would build from the dict of daily records
PeriodTablesOf(daily_dict) ==
    LET rows == SortedFinalized(daily_dict)
    IN  <<aggregate_period(rows, "mensual", TRUE), aggregate_period(rows, "anual", TRUE),
          aggregate_period(rows, "mensual", FALSE), aggregate_period(rows, "anual", FALSE)>>

\* load_daily_metrics keeps its daily records, and with them every period
\* record (totals, dias_con_datos, daily averages, ratios)
TiemposOutputsKept ==
    /\ DOMAIN daily' = DOMAIN daily
    /\ daily' = daily
    /\ PeriodTablesOf(daily') = PeriodTablesOf(daily)

\* aggregate_daily_data keeps its days, their totals and the divisor of the
\* per-code averages
BrechaOutputsKept ==
    /\ agg'.daily_metrics = agg.daily_metrics
    /\ AggregateResult(agg').day_count = AggregateResult(agg).day_count
    /\ AggregateResult(agg').uebd_code_hpd = AggregateResult(agg).uebd_code_hpd
    /\ AggregateResult(agg').disp_code_hpd = AggregateResult(agg).disp_code_hpd

\* C29: folding an event whose resolved duration is zero leaves the set of
\* daily records, every period record's hour totals, dias_con_datos, daily
\* averages and ratios, and the number of days dividing the per-code
\* averages as they were; only the row counts change
C29_ZeroDurationChangesNoOutput ==
    [][ZeroDurationRead => TiemposOutputsKept /\ BrechaOutputsKept]_vars

\* the same statement for aggregate_daily_data alone
C29_ZeroDurationSkippedByBrecha ==
    [][ZeroDurationRead => BrechaOutputsKept /\ agg'.rows_read = agg.rows_read + 1]_vars

\* in load_daily_metrics such an event changes no hour total of a record that
\* exists, and adds a record of zero hours for a (day, rig) that has none
C29_ZeroDurationAddsEmptyRecord ==
    [][(ZeroDurationRead /\ ~HasNoDay(last_row')) =>
          LET key == <<ExpectedDay(last_row'), RigOf(last_row')>>
          IN  /\ DOMAIN daily' = DOMAIN daily \cup {key}
              /\ \A k \in DOMAIN daily : daily'[k] = daily[k]
              /\ key \notin DOMAIN daily =>
                     \A f \in SixFields : daily'[key][f] = Zero]_vars

\* only a zero-duration event was read for a (day, rig): it has a daily record
\* of zero hours and counts in dias_con_datos
C29_EmptyDayCounted ==
    /\ pc = "aggregated"
    /\ \E i \in RowIdx(daily_rows) : daily_rows[i].horas_totales = Zero
    /\ \E k \in RowIdx(yearly_fleet) : yearly_fleet[k].dias_con_datos = 3
    /\ agg_result.day_count = 2
====
